---- MODULE Spec2Model ----
(***************************************************************************)
(* Model of the inst_ctrl instrument facades (Fluke45, Fluke88,            *)
(* RigolDP800, SiglentSDG2042X, PhilipsPM5139) and of the pyvisa transport *)
(* calls they make.  One facade instance per behaviour; its family and     *)
(* constructor arguments are chosen in Init.                               *)
(*                                                                         *)
(* Numbers: amplitudes and offsets are in millivolts, phases in degrees.   *)
(* Frequencies are represented by their rank in FREQ_GRID (an ordered list *)
(* of the exact values that matter to the limits), since only comparisons  *)
(* are made on them.                                                       *)
(***************************************************************************)
EXTENDS Integers, Sequences, FiniteSets, TLC

VARIABLES
    family,            \* which facade class the instance is
    addr,              \* addressing fields given to __init__ (set of names)
    resource_name,     \* self.resource_name ("" = None)
    instrument,        \* self.instrument: 0 = None, else a handle id
    is_serial,         \* self._is_serial (Fluke45/Fluke88)
    current_function,  \* Fluke88._current_function ("" = None)
    active_channel,    \* RigolDP800/SiglentSDG2042X._active_channel
    limits,            \* ParameterLimits of the signal generators
    unit_mode,         \* self._unit_mode of the signal generators
    handles,           \* transport side: every handle ever opened
    last,              \* the call just made: name, arguments, outcome
    io,                \* transport calls attempted by the call just made
    pre,               \* facade fields as they were when that call started
    hist               \* history of the session (for the ordering claims)

vars == <<family, addr, resource_name, instrument, is_serial, current_function,
          active_channel, limits, unit_mode, handles, last, io, pre, hist>>

--------------------------------------------------------------------------
(* Bounds *)

\* handles the transport hands out in one behaviour
MaxHandles == 2
\* addresses list_resources() returns
MaxResources == 2

--------------------------------------------------------------------------
(* Text: strings that the code searches are sequences of characters *)

LowerCase == <<"a","b","c","d","e","f","g","h","i","j","k","l","m","n","o","p","q","r","s","t","u","v","w","x","y","z">>
UpperCase == <<"A","B","C","D","E","F","G","H","I","J","K","L","M","N","O","P","Q","R","S","T","U","V","W","X","Y","Z">>

\* the upper-case letter of each lower-case letter
ToUpper ==
    [c \in {LowerCase[i] : i \in 1..26} |->
        UpperCase[CHOOSE i \in 1..26 : LowerCase[i] = c]]

UpperChar(c) == IF c \in DOMAIN ToUpper THEN ToUpper[c] ELSE c

\* str.upper()
Upper(s) == [i \in 1..Len(s) |-> UpperChar(s[i])]

\* t in s
Contains(s, t) ==
    \E i \in 0..(Len(s) - Len(t)) : \A j \in 1..Len(t) : s[i + j] = t[j]

IsSpace(c) == c \in {" ", "\n", "\r", "\t"}

\* str.strip()
Strip(s) ==
    IF \A i \in 1..Len(s) : IsSpace(s[i]) THEN <<>>
    ELSE LET a == CHOOSE i \in 1..Len(s) :
                    /\ ~IsSpace(s[i])
                    /\ \A j \in 1..(i - 1) : IsSpace(s[j])
             b == CHOOSE i \in 1..Len(s) :
                    /\ ~IsSpace(s[i])
                    /\ \A j \in (i + 1)..Len(s) : IsSpace(s[j])
         IN SubSeq(s, a, b)

\* str.startswith(t)
HasPrefix(s, t) == Len(s) >= Len(t) /\ SubSeq(s, 1, Len(t)) = t

\* s[i:] (i counted from 1)
From(s, i) == SubSeq(s, i, Len(s))

\* the index of the first occurrence of t in s, 0 when there is none
Find(s, t) ==
    IF Contains(s, t)
    THEN CHOOSE i \in 1..(Len(s) - Len(t) + 1) :
            /\ SubSeq(s, i, i + Len(t) - 1) = t
            /\ \A j \in 1..(i - 1) : SubSeq(s, j, j + Len(t) - 1) # t
    ELSE 0

\* str.split(sep) for a one-character separator
RECURSIVE Split(_, _)
Split(s, sep) ==
    IF \A i \in 1..Len(s) : s[i] # sep THEN <<s>>
    ELSE LET k == CHOOSE i \in 1..Len(s) :
                     s[i] = sep /\ \A j \in 1..(i - 1) : s[j] # sep
         IN <<SubSeq(s, 1, k - 1)>> \o Split(From(s, k + 1), sep)

\* str.replace(c, '') for a one-character c
Remove(s, c) == LET Keep(x) == x # c IN SelectSeq(s, Keep)

Digits == {"0","1","2","3","4","5","6","7","8","9"}

\* the length of the longest run of characters of S at the start of s
RunLen(s, S) ==
    IF \A i \in 1..Len(s) : s[i] \in S THEN Len(s)
    ELSE (CHOOSE i \in 1..Len(s) : s[i] \notin S /\ \A j \in 1..(i - 1) : s[j] \in S) - 1

\* fault injection: a pattern without the exponent part
NumberLen_no_exponent(s) ==
    LET sign == IF s # <<>> /\ s[1] \in {"+", "-"} THEN 1 ELSE 0
        body == RunLen(From(s, sign + 1), Digits \cup {"."})
    IN IF body = 0 THEN 0 ELSE sign + body

\* the length of what the pattern [+-]?[\d.]+(?:[eE][+-]?\d+)? matches at
\* the start of s, 0 when it does not match
NumberLen(s) ==
    LET sign == IF s # <<>> /\ s[1] \in {"+", "-"} THEN 1 ELSE 0
        body == RunLen(From(s, sign + 1), Digits \cup {"."})
        rest == From(s, sign + body + 1)
        esign == IF Len(rest) >= 2 /\ rest[2] \in {"+", "-"} THEN 1 ELSE 0
        edigits == IF rest # <<>> /\ rest[1] \in {"e", "E"}
                   THEN RunLen(From(rest, 2 + esign), Digits) ELSE 0
    IN IF body = 0 THEN 0
       ELSE sign + body + (IF edigits > 0 THEN 1 + esign + edigits ELSE 0)

\* does float(s) return for a token s that the pattern matched?  (it raises
\* ValueError for a token without a digit or with two points)
FloatOfToken(s) ==
    LET sign == IF s # <<>> /\ s[1] \in {"+", "-"} THEN 1 ELSE 0
        body == SubSeq(s, sign + 1, sign + RunLen(From(s, sign + 1), Digits \cup {"."}))
        IsPoint(x) == x = "."
        IsDigit(x) == x \in Digits
    IN Len(SelectSeq(body, IsPoint)) <= 1 /\ Len(SelectSeq(body, IsDigit)) >= 1

\* does float(s) return?  float() strips white space and takes one number
IsFloat(s) ==
    LET t == Strip(s) IN
    t # <<>> /\ NumberLen(t) = Len(t) /\ FloatOfToken(t)

\* int(s) for a string of digits
RECURSIVE IntOf(_)
IntOf(s) ==
    IF s = <<>> THEN 0
    ELSE 10 * IntOf(SubSeq(s, 1, Len(s) - 1))
         + (CHOOSE d \in 0..9 : <<"0","1","2","3","4","5","6","7","8","9">>[d + 1] = s[Len(s)])

\* A float is kept as the decimal m * 10^e it stands for, m without
\* trailing zeros (all the values used are short decimals)
RECURSIVE Dec(_, _)
Dec(m, e) ==
    IF m = 0 THEN [m |-> 0, e |-> 0]
    ELSE IF m % 10 = 0 THEN Dec(m \div 10, e + 1)
    ELSE [m |-> m, e |-> e]

\* str(n) for a natural number n
RECURSIVE ToDigits(_)
ToDigits(n) ==
    LET d == <<"0","1","2","3","4","5","6","7","8","9">>[(n % 10) + 1] IN
    IF n < 10 THEN <<d>> ELSE Append(ToDigits(n \div 10), d)

Zeros(k) == [i \in 1..k |-> "0"]

\* repr() of a float, as an f-string formats it: positional notation with
\* at least one decimal while the decimal exponent is in -4..15,
\* otherwise d.ddde+XX with an exponent of two digits or more
FloatRepr(v) ==
    LET a == IF v.m < 0 THEN -v.m ELSE v.m
        d == ToDigits(a)
        L == Len(d)
        X == L - 1 + v.e
        ax == IF X < 0 THEN -X ELSE X
        body ==
            IF a = 0 THEN <<"0", ".", "0">>
            ELSE IF X >= -4 /\ X < 16
            THEN IF v.e >= 0 THEN d \o Zeros(v.e) \o <<".", "0">>
                 ELSE IF L + v.e > 0
                 THEN SubSeq(d, 1, L + v.e) \o <<".">> \o SubSeq(d, L + v.e + 1, L)
                 ELSE <<"0", ".">> \o Zeros(-(L + v.e)) \o d
            ELSE <<d[1]>> \o (IF L > 1 THEN <<".">> \o Tail(d) ELSE <<>>)
                 \o <<"e", IF X < 0 THEN "-" ELSE "+">>
                 \o (IF ax < 10 THEN <<"0">> ELSE <<>>) \o ToDigits(ax)
    IN (IF v.m < 0 THEN <<"-">> ELSE <<>>) \o body

\* float(s) for a token s the number pattern matched and float() takes
FloatOf(s) ==
    LET sign == IF s # <<>> /\ s[1] \in {"+", "-"} THEN 1 ELSE 0
        n == RunLen(From(s, sign + 1), Digits \cup {"."})
        body == SubSeq(s, sign + 1, sign + n)
        p == Find(body, <<".">>)
        whole == IF p = 0 THEN body ELSE SubSeq(body, 1, p - 1)
        frac == IF p = 0 THEN <<>> ELSE From(body, p + 1)
        rest == From(s, sign + n + 1)
        esign == IF Len(rest) >= 2 /\ rest[2] \in {"+", "-"} THEN 1 ELSE 0
        ex == IF rest = <<>> THEN 0
              ELSE (IF esign = 1 /\ rest[2] = "-" THEN -1 ELSE 1)
                   * IntOf(From(rest, 2 + esign))
        m == IntOf(whole \o frac)
    IN Dec(IF sign = 1 /\ s[1] = "-" THEN -m ELSE m, ex - Len(frac))

T_FLUKE == <<"F","L","U","K","E">>
T_45 == <<"4","5">>
T_8845 == <<"8","8","4","5">>
T_8846 == <<"8","8","4","6">>
T_Siglent == <<"S","i","g","l","e","n","t">>
T_SDG == <<"S","D","G">>
T_RIGOL == <<"R","I","G","O","L">>
T_DP8 == <<"D","P","8">>
T_PM5139 == <<"P","M","5","1","3","9">>
T_PHILIPS == <<"P","H","I","L","I","P","S">>
T_PM5138A == <<"P","M","5","1","3","8","A">>
T_GPIB == <<"G","P","I","B">>
T_TCPIP == <<"T","C","P","I","P">>
T_USB == <<"U","S","B">>
T_ASRL == <<"A","S","R","L">>

\* identity lines a device on the bus may answer to *IDN? (a trailing
\* newline is part of the raw answer)
IDN_FLUKE45 == <<"F","L","U","K","E",",","4","5",",","4","5","1","0","0","2","3",",","1",".","0","\n">>
IDN_FLUKE8845 == <<"F","l","u","k","e",",","8","8","4","5","A",",","2","7","4","5","0","0","1",",","2",".","0","\n">>
IDN_SIGLENT == <<"S","i","g","l","e","n","t"," ","T","e","c","h","n","o","l","o","g","i","e","s",",","S","D","G","2","0","4","2","X",",","S","D","G","2","X",",","2",".","0","1","\n">>
IDN_RIGOL == <<"R","I","G","O","L"," ","T","E","C","H","N","O","L","O","G","I","E","S",",","D","P","8","3","2",",","D","P","8","C","1",",","1",".","1","4","\n">>
IDN_PM5139 == <<"F","L","U","K","E",",","P","M","5","1","3","9",",","0",",","V","1",".","2","\n">>
IDN_PM5139_ALL == <<"P","H","I","L","I","P","S",",","P","M","5","1","3","9","/","P","M","5","1","3","8","A",",","0",",","V","1",".","2","\n">>
IDN_OTHER == <<"A","C","M","E",",","X","1",",","7",",","0",".","9","\n">>

IdnKeys == {"fluke45", "fluke8845", "siglent", "rigol", "pm5139", "pm5139all", "other", "empty"}

IdnText(k) ==
    CASE k = "fluke45" -> IDN_FLUKE45
      [] k = "fluke8845" -> IDN_FLUKE8845
      [] k = "siglent" -> IDN_SIGLENT
      [] k = "rigol" -> IDN_RIGOL
      [] k = "pm5139" -> IDN_PM5139
      [] k = "pm5139all" -> IDN_PM5139_ALL
      [] k = "other" -> IDN_OTHER
      [] OTHER -> <<>>

\* VISA resource strings
R_GPIB == <<"G","P","I","B","0",":",":","3",":",":","I","N","S","T","R">>
R_ASRL == <<"A","S","R","L","1",":",":","I","N","S","T","R">>
R_TCPIP == <<"T","C","P","I","P","0",":",":","1","0",".","0",".","0",".","2",":",":","i","n","s","t","0",":",":","I","N","S","T","R">>
R_USB == <<"U","S","B","0",":",":","0","x","1","A","B","1",":",":","0","x","0","E","1","1",":",":","D","P","8","C",":",":","I","N","S","T","R">>

ResKeys == {"GPIB", "ASRL", "TCPIP", "USB"}

ResText(k) ==
    CASE k = "GPIB" -> R_GPIB
      [] k = "ASRL" -> R_ASRL
      [] k = "TCPIP" -> R_TCPIP
      [] k = "USB" -> R_USB
      [] OTHER -> <<>>

--------------------------------------------------------------------------
(* Families *)

Families == {"Fluke45", "Fluke88", "RigolDP800", "SiglentSDG2042X", "PhilipsPM5139"}

\* addressing fields of each constructor
Fields(f) ==
    CASE f = "Fluke45" -> {"gpib_address", "serial_port"}
      [] f = "Fluke88" -> {"ip_address", "gpib_address"}
      [] f = "RigolDP800" -> {"usb_serial", "ip_address", "gpib_address"}
      [] OTHER -> {}

\* the resource string connect() builds from a field
FieldResource(fld) ==
    CASE fld = "gpib_address" -> "GPIB"
      [] fld = "serial_port" -> "ASRL"
      [] fld = "ip_address" -> "TCPIP"
      [] fld = "usb_serial" -> "USB"

--------------------------------------------------------------------------
(* Transport (pyvisa) *)

\* one attempted transport call: kind is "write", "query" or "read", h the
\* handle it went to, ok whether it returned (FALSE: it raised pyvisa.Error)
IOE(kind, verb, s, n, h, ok) ==
    [kind |-> kind, verb |-> verb, s |-> s, n |-> n, h |-> h, ok |-> ok]

\* a transport call an operation plans to make
Cmd(kind, verb, s, n) == [kind |-> kind, verb |-> verb, s |-> s, n |-> n]

IsOpen(h) == h \in 1..Len(handles) /\ handles[h]

\* The calls actually attempted when an operation issues the calls of plan,
\* in order, on self.instrument.  A call on a closed handle raises
\* (InvalidSession); on an open handle the call number fault raises
\* (fault = 0: none does).  The first call that raises ends the sequence.
Exchange(plan, fault) ==
    IF plan = <<>> THEN <<>>
    ELSE IF ~IsOpen(instrument)
    THEN <<IOE(plan[1].kind, plan[1].verb, plan[1].s, plan[1].n, instrument, FALSE)>>
    ELSE LET n == IF fault \in 1..Len(plan) THEN fault ELSE Len(plan)
         IN [i \in 1..n |->
                IOE(plan[i].kind, plan[i].verb, plan[i].s, plan[i].n,
                    instrument, i # fault)]

Raised(ios) == ios # <<>> /\ ~ios[Len(ios)].ok

Writes(ios) == Cardinality({i \in 1..Len(ios) : ios[i].kind = "write"})
Queries(ios) == Cardinality({i \in 1..Len(ios) : ios[i].kind = "query"})
Reads(ios) == Cardinality({i \in 1..Len(ios) : ios[i].kind = "read"})

\* Resource.close(): closing an open handle either closes it or raises and
\* leaves it open; closing a closed handle returns without raising
CloseHandle(hs, h, closefault) ==
    IF h \in 1..Len(hs) /\ hs[h] /\ ~closefault
    THEN [hs EXCEPT ![h] = FALSE]
    ELSE hs

\* fault injection: close() that also raises on a handle already closed
CloseRaises_stale(hs, h, closefault) == h \in 1..Len(hs) /\ closefault

CloseRaises(hs, h, closefault) == h \in 1..Len(hs) /\ hs[h] /\ closefault

--------------------------------------------------------------------------
(* connect() *)

\* what one open_resource() + *IDN? attempt meets: the open raises, the
\* query raises, the device answers one of the identity lines, or it
\* answers IDN_OTHER and the close() that follows raises
FamilyIdns(f) ==
    CASE f = "Fluke45" -> {"fluke45", "fluke8845"}
      [] f = "Fluke88" -> {"fluke8845", "fluke45"}
      [] f = "RigolDP800" -> {"rigol"}
      [] f = "SiglentSDG2042X" -> {"siglent"}
      [] OTHER -> {"pm5139", "pm5139all"}

Outcomes(f) == {"openfail", "queryfail", "closefail", "other"} \cup FamilyIdns(f)

\* an addressed connect() may also meet a device that answers an empty line
DirectOutcomes(f) == Outcomes(f) \cup {"empty"}

OutcomeIdn(o) == IF o = "closefail" THEN "other" ELSE o

IdnQuery(h, ok) == IOE("query", "*IDN?", "", <<>>, h, ok)

Fluke45Match(idn) == Contains(Upper(idn), T_FLUKE) /\ Contains(idn, T_45)

Fluke88Match(idn) ==
    Contains(Upper(idn), T_FLUKE) /\ (Contains(idn, T_8845) \/ Contains(idn, T_8846))

RigolMatch(idn) == Contains(Upper(idn), T_RIGOL) /\ Contains(Upper(idn), T_DP8)

SiglentMatch(idn) == Contains(idn, T_Siglent) /\ Contains(idn, T_SDG)

PhilipsAutoMatch(idn) == Contains(idn, T_FLUKE) /\ Contains(idn, T_PM5139)

PhilipsResourceMismatch(idn) ==
    \/ ~Contains(idn, T_PM5139)
    \/ ~Contains(idn, T_PHILIPS)
    \/ ~Contains(idn, T_PM5138A)

\* the identity lines each test takes, and the addresses each auto-discovery
\* probes
Fluke45Accepts == {k \in IdnKeys : Fluke45Match(Strip(IdnText(k)))}
Fluke88Accepts == {k \in IdnKeys : Fluke88Match(Strip(IdnText(k)))}
RigolAccepts == {k \in IdnKeys : RigolMatch(Strip(IdnText(k)))}
SiglentAccepts == {k \in IdnKeys : SiglentMatch(Strip(IdnText(k)))}
PhilipsAutoAccepts == {k \in IdnKeys : PhilipsAutoMatch(Strip(IdnText(k)))}
PhilipsResourceRejects == {k \in IdnKeys : PhilipsResourceMismatch(Strip(IdnText(k)))}

GpibKeys == {rk \in ResKeys : Contains(ResText(rk), T_GPIB)}
TcpipKeys == {rk \in ResKeys : Contains(ResText(rk), T_TCPIP)}
UsbKeys == {rk \in ResKeys : Contains(ResText(rk), T_USB)}
AsrlKeys == {rk \in ResKeys : Contains(ResText(rk), T_ASRL)}
\* resource.upper().startswith('ASRL')
AsrlPrefixKeys ==
    {rk \in ResKeys : /\ Len(ResText(rk)) >= 4
                      /\ SubSeq(Upper(ResText(rk)), 1, 4) = T_ASRL}

\* the facade fields connect() leaves untouched
ConnectFailedEarly ==
    [inst |-> instrument, rn |-> resource_name, ser |-> is_serial,
     hs |-> handles, res |-> "ConnectionError", idn |-> "", opened |-> <<>>, io |-> <<>>]

\* the transport's table of handles: TRUE while the handle is open
NewHandle(hs, open) == Append(hs, open)

\* Fluke45/Fluke88 addressing-field branch: the handle is stored in
\* self.instrument as soon as it is opened, then identified
FlukeFieldConnect(rk, serial, o, accepts) ==
    LET h == Len(handles) + 1 IN
    IF o = "openfail" THEN [ConnectFailedEarly EXCEPT !.opened = <<rk>>]
    ELSE IF o = "queryfail"
    THEN [inst |-> h, rn |-> resource_name, ser |-> serial,
          hs |-> NewHandle(handles, TRUE),
          res |-> "ConnectionError", idn |-> "", opened |-> <<rk>>, io |-> <<IdnQuery(h, FALSE)>>]
    ELSE IF OutcomeIdn(o) \in accepts
    THEN [inst |-> h, rn |-> rk, ser |-> serial,
          hs |-> NewHandle(handles, TRUE),
          res |-> "ok", idn |-> OutcomeIdn(o), opened |-> <<rk>>, io |-> <<IdnQuery(h, TRUE)>>]
    ELSE [inst |-> h, rn |-> resource_name, ser |-> serial,
          hs |-> NewHandle(handles, o = "closefail"),
          res |-> "ConnectionError", idn |-> "", opened |-> <<rk>>, io |-> <<IdnQuery(h, TRUE)>>]

\* Fluke45/Fluke88/SiglentSDG2042X resource_name branch: stored when
\* opened, queried, never compared
StoreFirstResourceConnect(serial, o) ==
    LET h == Len(handles) + 1 IN
    IF o = "openfail" THEN [ConnectFailedEarly EXCEPT !.opened = <<resource_name>>]
    ELSE IF o = "queryfail"
    THEN [inst |-> h, rn |-> resource_name, ser |-> serial,
          hs |-> NewHandle(handles, TRUE),
          res |-> "ConnectionError", idn |-> "", opened |-> <<resource_name>>, io |-> <<IdnQuery(h, FALSE)>>]
    ELSE [inst |-> h, rn |-> resource_name, ser |-> serial,
          hs |-> NewHandle(handles, TRUE),
          res |-> "ok", idn |-> OutcomeIdn(o), opened |-> <<resource_name>>, io |-> <<IdnQuery(h, TRUE)>>]

\* which enumerated addresses auto-discovery probes
AutoProbes(f, rk) ==
    CASE f = "Fluke45" -> rk \in GpibKeys
      [] f = "Fluke88" -> rk \in GpibKeys \/ rk \in TcpipKeys
      [] f = "RigolDP800" -> rk \in UsbKeys \/ rk \in TcpipKeys \/ rk \in GpibKeys
      [] OTHER -> TRUE

AutoMatch(f, k) ==
    CASE f = "Fluke45" -> k \in Fluke45Accepts
      [] f = "Fluke88" -> k \in Fluke88Accepts
      [] f = "RigolDP800" -> k \in RigolAccepts
      [] f = "SiglentSDG2042X" -> k \in SiglentAccepts
      [] OTHER -> k \in PhilipsAutoAccepts

\* PhilipsPM5139._configure_serial(resource): acts on self.instrument
ConfigureSerial(rk, h, hs) ==
    IF rk \notin AsrlPrefixKeys \/ h = 0 THEN <<>>
    ELSE <<IOE("write", "ESC2", "", <<>>, h, h \in 1..Len(hs) /\ hs[h])>>

\* the enumerated addresses the loop has passed to open_resource() when it
\* is done with entry i
ProbedUpTo(rs, i) ==
    LET Probed(rk) == AutoProbes(family, rk)
    IN SelectSeq(SubSeq(rs, 1, i), Probed)

\* the auto-discovery loop over list_resources(); acc carries the handles
\* opened and the transport calls made so far
RECURSIVE AutoDiscover(_, _, _, _)
AutoDiscover(rs, os, i, acc) ==
    IF i > Len(rs)
    THEN [inst |-> instrument, rn |-> resource_name, ser |-> is_serial,
          hs |-> acc.hs, res |-> "ConnectionError", idn |-> "",
          opened |-> ProbedUpTo(rs, Len(rs)), io |-> acc.io]
    ELSE IF ~AutoProbes(family, rs[i]) \/ os[i] = "openfail"
    THEN AutoDiscover(rs, os, i + 1, acc)
    ELSE LET h == Len(acc.hs) + 1
             cs == IF family = "PhilipsPM5139"
                   THEN ConfigureSerial(rs[i], instrument, acc.hs) ELSE <<>>
         IN IF os[i] = "queryfail"
            THEN AutoDiscover(rs, os, i + 1,
                    [hs |-> NewHandle(acc.hs, TRUE),
                     io |-> acc.io \o cs \o <<IdnQuery(h, FALSE)>>])
            ELSE IF AutoMatch(family, OutcomeIdn(os[i]))
            THEN [inst |-> h, rn |-> rs[i],
                  ser |-> IF family \in {"Fluke45", "Fluke88"} THEN FALSE ELSE is_serial,
                  hs |-> NewHandle(acc.hs, TRUE),
                  res |-> "ok", idn |-> OutcomeIdn(os[i]),
                  opened |-> ProbedUpTo(rs, i),
                  io |-> acc.io \o cs \o <<IdnQuery(h, TRUE)>>]
            ELSE AutoDiscover(rs, os, i + 1,
                    [hs |-> NewHandle(acc.hs, os[i] = "closefail"),
                     io |-> acc.io \o cs \o <<IdnQuery(h, TRUE)>>])

\* RigolDP800 addressing-field branch: the handle is a local until it is
\* identified
RigolFieldConnect(rk, o) ==
    IF o = "openfail" THEN [ConnectFailedEarly EXCEPT !.opened = <<rk>>]
    ELSE IF o = "queryfail"
    THEN [inst |-> instrument, rn |-> resource_name, ser |-> is_serial,
          hs |-> NewHandle(handles, TRUE),
          res |-> "ConnectionError", idn |-> "", opened |-> <<rk>>, io |-> <<IdnQuery(Len(handles) + 1, FALSE)>>]
    ELSE IF OutcomeIdn(o) \in RigolAccepts
    THEN [inst |-> Len(handles) + 1, rn |-> rk, ser |-> is_serial,
          hs |-> NewHandle(handles, TRUE),
          res |-> "ok", idn |-> OutcomeIdn(o), opened |-> <<rk>>, io |-> <<IdnQuery(Len(handles) + 1, TRUE)>>]
    ELSE [inst |-> instrument, rn |-> resource_name, ser |-> is_serial,
          hs |-> NewHandle(handles, o = "closefail"),
          res |-> "ConnectionError", idn |-> "", opened |-> <<rk>>, io |-> <<IdnQuery(Len(handles) + 1, TRUE)>>]

\* RigolDP800 resource_name branch: stored after the query returned
RigolResourceConnect(o) ==
    IF o = "openfail" THEN [ConnectFailedEarly EXCEPT !.opened = <<resource_name>>]
    ELSE IF o = "queryfail"
    THEN [inst |-> instrument, rn |-> resource_name, ser |-> is_serial,
          hs |-> NewHandle(handles, TRUE),
          res |-> "ConnectionError", idn |-> "", opened |-> <<resource_name>>, io |-> <<IdnQuery(Len(handles) + 1, FALSE)>>]
    ELSE [inst |-> Len(handles) + 1, rn |-> resource_name, ser |-> is_serial,
          hs |-> NewHandle(handles, TRUE),
          res |-> "ok", idn |-> OutcomeIdn(o), opened |-> <<resource_name>>, io |-> <<IdnQuery(Len(handles) + 1, TRUE)>>]

\* PhilipsPM5139 resource_name branch
PhilipsResourceConnect(o) ==
    LET h == Len(handles) + 1
        opened == NewHandle(handles, TRUE)
        cs == ConfigureSerial(resource_name, h, opened)
    IN IF o = "openfail" THEN [ConnectFailedEarly EXCEPT !.opened = <<resource_name>>]
       ELSE IF o = "queryfail"
       THEN [inst |-> h, rn |-> resource_name, ser |-> is_serial, hs |-> opened,
             res |-> "ConnectionError", idn |-> "", opened |-> <<resource_name>>, io |-> cs \o <<IdnQuery(h, FALSE)>>]
       ELSE IF OutcomeIdn(o) \in PhilipsResourceRejects
       THEN [inst |-> IF o = "closefail" THEN h ELSE 0,
             rn |-> resource_name, ser |-> is_serial,
             hs |-> NewHandle(handles, o = "closefail"),
             res |-> "ConnectionError", idn |-> "", opened |-> <<resource_name>>, io |-> cs \o <<IdnQuery(h, TRUE)>>]
       ELSE [inst |-> h, rn |-> resource_name, ser |-> is_serial,
             hs |-> NewHandle(handles, TRUE),
             res |-> "ok", idn |-> OutcomeIdn(o), opened |-> <<resource_name>>, io |-> cs \o <<IdnQuery(h, TRUE)>>]

\* does connect() reach list_resources()?
UsesAutoDiscovery == resource_name = "" /\ addr \cap Fields(family) = {}

\* fault injection: a connect() that tries the resource_name first
Fluke45_connect_resource_first(o) ==
    IF resource_name # ""
    THEN StoreFirstResourceConnect(resource_name \in AsrlKeys, o)
    ELSE IF "gpib_address" \in addr
    THEN FlukeFieldConnect("GPIB", FALSE, o, Fluke45Accepts)
    ELSE FlukeFieldConnect("ASRL", TRUE, o, Fluke45Accepts)

Fluke45_connect(o) ==
    IF "gpib_address" \in addr
    THEN FlukeFieldConnect("GPIB", FALSE, o, Fluke45Accepts)
    ELSE IF "serial_port" \in addr
    THEN FlukeFieldConnect("ASRL", TRUE, o, Fluke45Accepts)
    ELSE StoreFirstResourceConnect(resource_name \in AsrlKeys, o)

Fluke88_connect(o) ==
    IF "ip_address" \in addr
    THEN FlukeFieldConnect("TCPIP", FALSE, o, Fluke88Accepts)
    ELSE IF "gpib_address" \in addr
    THEN FlukeFieldConnect("GPIB", FALSE, o, Fluke88Accepts)
    ELSE StoreFirstResourceConnect(resource_name \in AsrlKeys, o)

RigolDP800_connect(o) ==
    IF "usb_serial" \in addr THEN RigolFieldConnect("USB", o)
    ELSE IF "ip_address" \in addr THEN RigolFieldConnect("TCPIP", o)
    ELSE IF "gpib_address" \in addr THEN RigolFieldConnect("GPIB", o)
    ELSE RigolResourceConnect(o)

SiglentSDG2042X_connect(o) == StoreFirstResourceConnect(is_serial, o)

PhilipsPM5139_connect(o) == PhilipsResourceConnect(o)

\* connect() when an address is configured
DirectConnect(o) ==
    CASE family = "Fluke45" -> Fluke45_connect(o)
      [] family = "Fluke88" -> Fluke88_connect(o)
      [] family = "RigolDP800" -> RigolDP800_connect(o)
      [] family = "SiglentSDG2042X" -> SiglentSDG2042X_connect(o)
      [] OTHER -> PhilipsPM5139_connect(o)

\* connect() when none is: list_resources() raises, or the loop runs
AutoConnect(listfault, rs, os) ==
    IF listfault THEN ConnectFailedEarly
    ELSE AutoDiscover(rs, os, 1, [hs |-> handles, io |-> <<>>])

\* disconnect(); PhilipsPM5139 alone forgets the handle afterwards
disconnect(closefault) ==
    IF instrument = 0
    THEN [inst |-> 0, hs |-> handles, res |-> "ok"]
    ELSE IF CloseRaises(handles, instrument, closefault)
    THEN [inst |-> instrument, hs |-> handles, res |-> "ConnectionError"]
    ELSE [inst |-> IF family = "PhilipsPM5139" THEN 0 ELSE instrument,
          hs |-> CloseHandle(handles, instrument, closefault), res |-> "ok"]

--------------------------------------------------------------------------
(* Outcome of a typed operation: res is "ok" or the error class raised,   *)
(* io the transport calls attempted, ret what was returned                 *)

Out(res, ios, ret) == [res |-> res, io |-> ios, ret |-> ret, reply |-> <<>>]

\* the same for an operation that read replies from the transport: reply is
\* the sequence of raw texts it was answered
Answered(res, ios, ret, reply) == [res |-> res, io |-> ios, ret |-> ret, reply |-> reply]

NotConnected == Out("ConnectionError", <<>>, "")

\* fault injection: a facade whose operations skip the connection check
EnsureConnected_skipped == TRUE

\* _ensure_connected(): `if not self.instrument`
EnsureConnected == instrument # 0

\* the common body of a setter: connection check, argument validation,
\* then the planned transport calls inside try/except pyvisa.Error
CheckedIO(valid, plan, fault) ==
    IF ~EnsureConnected THEN NotConnected
    ELSE IF ~valid THEN Out("ValidationError", <<>>, "")
    ELSE LET x == Exchange(plan, fault)
         IN Out(IF Raised(x) THEN "CommandError" ELSE "ok", x, "")

StartsWith(s, t) == Len(s) >= Len(t) /\ SubSeq(s, 1, Len(t)) = t

--------------------------------------------------------------------------
(* Fluke45 *)

\* members of the Func enum (name = value for every member)
Func == {"VDC", "VAC", "VACDC", "ADC", "AAC", "OHMS", "FREQ", "DIODE"}

FuncChars(f) ==
    CASE f = "VDC" -> <<"V","D","C">>
      [] f = "VAC" -> <<"V","A","C">>
      [] f = "VACDC" -> <<"V","A","C","D","C">>
      [] f = "ADC" -> <<"A","D","C">>
      [] f = "AAC" -> <<"A","A","C">>
      [] f = "OHMS" -> <<"O","H","M","S">>
      [] f = "FREQ" -> <<"F","R","E","Q">>
      [] f = "DIODE" -> <<"D","I","O","D","E">>

\* members of the Rate enum, by name, and their values
Rate == {"SLOW", "MEDIUM", "FAST"}

RateValue(r) ==
    CASE r = "SLOW" -> <<"S">>
      [] r = "MEDIUM" -> <<"M">>
      [] r = "FAST" -> <<"F">>

RateNameChars(r) ==
    CASE r = "SLOW" -> <<"S","L","O","W">>
      [] r = "MEDIUM" -> <<"M","E","D","I","U","M">>
      [] r = "FAST" -> <<"F","A","S","T">>

\* an argument as Python sees it: an enum member, a str or something else
EnumArg(m) == [t |-> "enum", m |-> m, chars |-> <<>>, n |-> 0]
StrArg(cs) == [t |-> "str", m |-> "", chars |-> cs, n |-> 0]
IntArg(n) == [t |-> "int", m |-> "", chars |-> <<>>, n |-> n]
OtherArg == [t |-> "other", m |-> "", chars |-> <<>>, n |-> 0]

\* prompt lines a Fluke 45 sends back on RS-232
L_OK == <<"=",">","\r","\n">>
L_SYNTAX == <<"?",">","\r","\n">>
L_EXEC == <<"!",">","\r","\n">>
L_PLAIN == <<"+","1",".","5","E","+","0","\r","\n">>
L_OK_VALUE == <<"=",">"," ","1","\r","\n">>

PromptLines == {L_OK, L_SYNTAX, L_EXEC, L_PLAIN}

\* fault injection: a decoder that leaves the '=>' prompt in place
Fluke45_read_response_keeps_prompt(line) ==
    LET response == Strip(line) IN
    IF StartsWith(response, <<"?", ">">>) \/ StartsWith(response, <<"!", ">">>)
    THEN [res |-> "CommandError", text |-> response]
    ELSE [res |-> "ok", text |-> response]

\* Fluke45._read_response() once instrument.read() has returned line
Fluke45_read_response(line) ==
    LET response == Strip(line) IN
    IF StartsWith(response, <<"?", ">">>) \/ StartsWith(response, <<"!", ">">>)
    THEN [res |-> "CommandError", text |-> response]
    ELSE IF StartsWith(response, <<"=", ">">>)
    THEN [res |-> "ok", text |-> Strip(SubSeq(response, 3, Len(response)))]
    ELSE [res |-> "ok", text |-> response]

\* write cmd, then _read_response(): on a serial link the prompt line is read
Fluke45_write(valid, verb, s, n, fault, line) ==
    IF ~EnsureConnected THEN NotConnected
    ELSE IF ~valid THEN Out("ValidationError", <<>>, "")
    ELSE LET plan == <<Cmd("write", verb, s, n)>> \o
                     (IF is_serial THEN <<Cmd("read", "", "", <<>>)>> ELSE <<>>)
             x == Exchange(plan, fault)
         IN IF Raised(x) THEN Out("CommandError", x, "")
            ELSE IF is_serial
            THEN Out(Fluke45_read_response(line).res, x, "")
            ELSE Out("ok", x, "")

\* _read_response() as a whole: nothing is read unless the link is serial;
\* _get_instrument() checks the connection; a fault of read() becomes
\* CommandError; the message of a prompt error carries the stripped line
Fluke45_read_response_method(fault, line) ==
    IF ~is_serial THEN Out("ok", <<>>, "None")
    ELSE IF ~EnsureConnected THEN NotConnected
    ELSE LET x == Exchange(<<Cmd("read", "", "", <<>>)>>, fault)
             d == Fluke45_read_response(line)
         IN IF Raised(x) THEN Out("CommandError", x, "")
            ELSE Answered(d.res, x, d.text, <<line>>)

\* the command word of a function argument, "" when it is rejected
Fluke45FuncCmd(value) ==
    LET u == Upper(value.chars) IN
    IF value.t = "enum" THEN value.m
    ELSE IF value.t = "str" /\ \E f \in Func : FuncChars(f) = u
    THEN CHOOSE f \in Func : FuncChars(f) = u
    ELSE ""

Fluke45_primary_function_set(value, fault, line) ==
    Fluke45_write(Fluke45FuncCmd(value) # "", Fluke45FuncCmd(value), "", <<>>, fault, line)

\* getters that only check the connection and return None
Fluke45_placeholder_get ==
    IF ~EnsureConnected THEN NotConnected ELSE Out("ok", <<>>, "None")

Fluke45_range_set(value, fault, line) ==
    Fluke45_write(value \in 1..7, "RANGE", "", <<value>>, fault, line)

Fluke45RateCmd(value) ==
    IF value.t = "enum" THEN RateValue(value.m)
    ELSE IF value.t = "str" /\ \E r \in Rate : RateValue(r) = Upper(value.chars)
    THEN Upper(value.chars)
    ELSE <<>>

Fluke45_rate_set(value, fault, line) ==
    Fluke45_write(Fluke45RateCmd(value) # <<>>, "RATE",
                  IF Fluke45RateCmd(value) = <<>> THEN "" ELSE Fluke45RateCmd(value)[1],
                  <<>>, fault, line)

Fluke45_auto_range_set(value, fault, line) ==
    IF value THEN Fluke45_write(TRUE, "AUTO", "", <<>>, fault, line)
    ELSE Fluke45_write(TRUE, "RANGE", "", <<4>>, fault, line)

\* answers to a state query
StateAnswers == {<<"1","\n">>, <<"0","\n">>, <<"O","N","\n">>, <<"o","f","f","\n">>,
                 <<"E","R","R","\n">>}

Fluke45_auto_range_get(fault, answer) ==
    IF ~EnsureConnected THEN NotConnected
    ELSE LET x == Exchange(<<Cmd("query", "AUTO?", "", <<>>)>>, fault)
         IN IF Raised(x) THEN Out("CommandError", x, "")
            ELSE Answered("ok", x, IF Strip(answer) = <<"1">> THEN "True" ELSE "False",
                          <<answer>>)

\* float() returns for each of the first n values (it raises ValueError,
\* which the callers turn into CommandError, otherwise)
AllFloats(values, n) == \A i \in 1..n : IsFloat(values[i])

\* both(): MEAS? answered with exactly two comma-separated numbers
Fluke45_both(fault, answer) ==
    IF ~EnsureConnected THEN NotConnected
    ELSE LET x == Exchange(<<Cmd("query", "MEAS?", "", <<>>)>>, fault)
             values == Split(Strip(answer), ",")
         IN IF Raised(x) THEN Out("CommandError", x, "")
            ELSE IF Len(values) # 2 \/ ~AllFloats(values, 2)
            THEN Answered("CommandError", x, "", <<answer>>)
            ELSE Answered("ok", x, <<Strip(values[1]), Strip(values[2])>>, <<answer>>)

\* primary(), secondary(), primary_value, secondary_value: one query, the
\* answer stripped and given to float(); the ValueError of float() becomes
\* CommandError with the response in its message
Fluke45_query_float(verb, fault, answer) ==
    IF ~EnsureConnected THEN NotConnected
    ELSE LET x == Exchange(<<Cmd("query", verb, "", <<>>)>>, fault)
         IN IF Raised(x) THEN Out("CommandError", x, "")
            ELSE IF ~IsFloat(Strip(answer))
            THEN Answered("CommandError", x, answer, <<answer>>)
            ELSE Answered("ok", x, FloatOf(Strip(answer)), <<answer>>)

\* compare_result: COMP? answered with HI, LO or PASS
Fluke45_compare_result(fault, answer) ==
    IF ~EnsureConnected THEN NotConnected
    ELSE LET x == Exchange(<<Cmd("query", "COMP?", "", <<>>)>>, fault)
             result == Strip(answer)
         IN IF Raised(x) THEN Out("CommandError", x, "")
            ELSE IF result \notin {<<"H","I">>, <<"L","O">>, <<"P","A","S","S">>}
            THEN Answered("CommandError", x, result, <<answer>>)
            ELSE Answered("ok", x, result, <<answer>>)

\* the getters and measurement queries by the name of the operation
Fluke45_getter(op, fault, answer) ==
    CASE op = "auto_range.get" -> Fluke45_auto_range_get(fault, answer)
      [] op = "primary" -> Fluke45_query_float("MEAS1?", fault, answer)
      [] op = "secondary" -> Fluke45_query_float("MEAS2?", fault, answer)
      [] op = "both" -> Fluke45_both(fault, answer)
      [] op = "primary_value" -> Fluke45_query_float("VAL1?", fault, answer)
      [] op = "secondary_value" -> Fluke45_query_float("VAL2?", fault, answer)
      [] op = "compare_result" -> Fluke45_compare_result(fault, answer)

--------------------------------------------------------------------------
(* Fluke88 *)

\* Fluke88._FUNCTION_MAP: "" where the map has no entry
Fluke88_FUNCTION_MAP(f) ==
    CASE f = "VDC" -> "VOLT:DC"
      [] f = "VAC" -> "VOLT:AC"
      [] f = "ADC" -> "CURR:DC"
      [] f = "AAC" -> "CURR:AC"
      [] f = "OHMS" -> "RES"
      [] f = "FREQ" -> "FREQ"
      [] f = "DIODE" -> "DIOD"
      [] OTHER -> ""

\* Fluke88._RATE_MAP, NPLC in tenths of a power-line cycle
Fluke88_RATE_MAP(r) ==
    CASE r = "FAST" -> 2
      [] r = "MEDIUM" -> 10
      [] r = "SLOW" -> 100

\* the Func member an argument names ("" when it names none)
Fluke88FuncEnum(value) ==
    LET u == Upper(value.chars) IN
    IF value.t = "enum" THEN value.m
    ELSE IF value.t = "str" /\ \E f \in Func : FuncChars(f) = u
    THEN CHOOSE f \in Func : FuncChars(f) = u
    ELSE ""

\* primary_function setter: returns the outcome and the new selector
Fluke88_primary_function_set(value, fault) ==
    LET func_enum == Fluke88FuncEnum(value)
        scpi_function == Fluke88_FUNCTION_MAP(func_enum)
    IN IF ~EnsureConnected THEN [out |-> NotConnected, cf |-> current_function]
       ELSE IF func_enum = "" \/ scpi_function = ""
       THEN [out |-> Out("ValidationError", <<>>, ""), cf |-> current_function]
       ELSE LET x == Exchange(<<Cmd("write", "CONF:", scpi_function, <<>>)>>, fault)
            IN [out |-> Out(IF Raised(x) THEN "CommandError" ELSE "ok", x, ""),
                cf |-> scpi_function]

\* primary_function, auto_range, range and rate getters
Fluke88_placeholder_get == Out("ok", <<>>, "None")

\* secondary_function getter: `return None`
Fluke88_secondary_function_get == Out("ok", <<>>, "None")

\* secondary_function setter, secondary(), both(), secondary_value
Fluke88_unsupported == Out("ValidationError", <<>>, "")

Fluke88_auto_range_set(value, fault) ==
    IF ~EnsureConnected THEN NotConnected
    ELSE IF current_function = "" THEN Out("CommandError", <<>>, "")
    ELSE LET x == Exchange(<<Cmd("write",
                                 IF value THEN ":RANG:AUTO ON" ELSE ":RANG:AUTO OFF",
                                 current_function, <<>>)>>, fault)
         IN Out(IF Raised(x) THEN "CommandError" ELSE "ok", x, "")

Fluke88_range_set(value, fault) ==
    IF ~EnsureConnected THEN NotConnected
    ELSE IF current_function = "" THEN Out("CommandError", <<>>, "")
    ELSE LET x == Exchange(<<Cmd("write", ":RANG", current_function, <<value>>)>>, fault)
         IN Out(IF Raised(x) THEN "CommandError" ELSE "ok", x, "")

\* the Rate member an argument names ("" when it names none)
Fluke88RateEnum(value) ==
    IF value.t = "enum" THEN value.m
    ELSE IF value.t = "str" /\ \E r \in Rate : RateNameChars(r) = Upper(value.chars)
    THEN CHOOSE r \in Rate : RateNameChars(r) = Upper(value.chars)
    ELSE ""

Fluke88_rate_set(value, fault) ==
    IF ~EnsureConnected THEN NotConnected
    ELSE IF current_function = "" THEN Out("CommandError", <<>>, "")
    ELSE IF Fluke88RateEnum(value) = "" THEN Out("ValidationError", <<>>, "")
    ELSE LET x == Exchange(<<Cmd("write", ":NPLC", current_function,
                                 <<Fluke88_RATE_MAP(Fluke88RateEnum(value))>>)>>, fault)
         IN Out(IF Raised(x) THEN "CommandError" ELSE "ok", x, "")

--------------------------------------------------------------------------
(* ParameterLimits *)

\* exact frequencies, in Hz, in increasing order; a frequency is its rank
FREQ_GRID == <<"-5", "0", "1e-6", "1e-4", "1000", "20e6", "40e6", "50e6">>

Hz(x) == CHOOSE i \in 1..Len(FREQ_GRID) : FREQ_GRID[i] = x

\* the number a frequency of the grid stands for, and back
FreqValue(i) ==
    CASE FREQ_GRID[i] = "-5" -> Dec(-5, 0)
      [] FREQ_GRID[i] = "0" -> Dec(0, 0)
      [] FREQ_GRID[i] = "1e-6" -> Dec(1, -6)
      [] FREQ_GRID[i] = "1e-4" -> Dec(1, -4)
      [] FREQ_GRID[i] = "1000" -> Dec(1, 3)
      [] FREQ_GRID[i] = "20e6" -> Dec(2, 7)
      [] FREQ_GRID[i] = "40e6" -> Dec(4, 7)
      [] OTHER -> Dec(5, 7)

\* the rank of a number in the grid, 0 when it is not one of its values
FreqRank(v) ==
    IF \E i \in 1..Len(FREQ_GRID) : FreqValue(i) = v
    THEN CHOOSE i \in 1..Len(FREQ_GRID) : FreqValue(i) = v
    ELSE 0

\* the number, in volts, of an amplitude or offset in millivolts, and back
\* (-1 - 10^6 stands for a number that is not a whole number of millivolts)
Volts(mv) == Dec(mv, -3)

RECURSIVE Pow10(_)
Pow10(k) == IF k = 0 THEN 1 ELSE 10 * Pow10(k - 1)

MilliVolts(v) == IF v.e >= -3 /\ v.e <= 3 THEN v.m * Pow10(v.e + 3) ELSE -1000001

\* ParameterLimits.__init__
ParameterLimits_init ==
    [freq_min |-> Hz("1e-6"), freq_max |-> Hz("40e6"),
     amp_min |-> 2, amp_max |-> 20000,
     offset_min |-> -10000, offset_max |-> 10000,
     phase_min |-> 0, phase_max |-> 360]

\* ParameterLimits.reset_to_defaults()
ParameterLimits_reset_to_defaults ==
    [freq_min |-> Hz("1e-6"), freq_max |-> Hz("40e6"),
     amp_min |-> 2, amp_max |-> 20000,
     offset_min |-> -10000, offset_max |-> 10000,
     phase_min |-> 0, phase_max |-> 360]

\* the limits PhilipsPM5139.__init__ leaves behind
PhilipsPM5139_init_limits ==
    [ParameterLimits_init EXCEPT
        !.freq_min = Hz("1e-4"), !.freq_max = Hz("20e6"),
        !.amp_min = 0, !.amp_max = 20000,
        !.offset_min = -10000, !.offset_max = 10000]

LimitNames == {"freq_min", "freq_max", "amp_min", "amp_max",
               "offset_min", "offset_max", "phase_min", "phase_max"}

\* the property setters of ParameterLimits: no check against the paired bound
ParameterLimits_set(l, name, value) == [l EXCEPT ![name] = value]

\* fault injection: a range check that rejects the bounds themselves
InRange_exclusive(lo, v, hi) == lo < v /\ v < hi

InRange(lo, v, hi) == lo <= v /\ v <= hi

--------------------------------------------------------------------------
(* Waveform names *)

WaveNames == {"SINE", "SQUARE", "RAMP", "PULSE", "NOISE", "ARB", "DC", "PRBS", "IQ"}

WaveChars(w) ==
    CASE w = "SINE" -> <<"S","I","N","E">>
      [] w = "SQUARE" -> <<"S","Q","U","A","R","E">>
      [] w = "RAMP" -> <<"R","A","M","P">>
      [] w = "PULSE" -> <<"P","U","L","S","E">>
      [] w = "NOISE" -> <<"N","O","I","S","E">>
      [] w = "ARB" -> <<"A","R","B">>
      [] w = "DC" -> <<"D","C">>
      [] w = "PRBS" -> <<"P","R","B","S">>
      [] w = "IQ" -> <<"I","Q">>

\* value.upper() as a waveform name, "" when it is none of the given ones
WaveOf(chars, valid) ==
    LET u == Upper(chars) IN
    IF \E w \in valid : WaveChars(w) = u
    THEN CHOOSE w \in valid : WaveChars(w) = u
    ELSE ""

--------------------------------------------------------------------------
(* SiglentSDG2042X *)

SiglentSDG2042X_VALID_WAVEFORMS == WaveNames

\* channel setter: returns the new active channel, 0 when it raises
SiglentSDG2042X_channel_set(value) == IF value \in {1, 2} THEN value ELSE 0

SiglentSDG2042X_channel_get == Out("ok", <<>>, active_channel)

\* unit_mode getter (SiglentSDG2042X and PhilipsPM5139 alike)
unit_mode_get == Out("ok", <<>>, unit_mode)

\* unit_mode setter: the new mode, "" when it raises ValidationError
unit_mode_set(value) == IF value \in {"pint", "tuple"} THEN value ELSE ""

\* _format_quantity(): a pint Quantity in 'pint' mode when pint could be
\* imported (ureg), else the (value, unit) tuple
format_quantity(tuple_text, pint_text, ureg) ==
    IF unit_mode = "pint" /\ ureg THEN pint_text ELSE tuple_text

SiglentSDG2042X_frequency_set(value, fault) ==
    CheckedIO(InRange(limits.freq_min, value, limits.freq_max),
              <<Cmd("write", "BSWV FRQ", "", <<active_channel, value>>)>>, fault)

SiglentSDG2042X_amplitude_set(value, fault) ==
    CheckedIO(InRange(limits.amp_min, value, limits.amp_max),
              <<Cmd("write", "BSWV AMP", "", <<active_channel, value>>)>>, fault)

SiglentSDG2042X_offset_set(value, fault) ==
    CheckedIO(InRange(limits.offset_min, value, limits.offset_max),
              <<Cmd("write", "BSWV OFST", "", <<active_channel, value>>)>>, fault)

SiglentSDG2042X_phase_set(value, fault) ==
    CheckedIO(InRange(limits.phase_min, value, limits.phase_max),
              <<Cmd("write", "BSWV PHSE", "", <<active_channel, value>>)>>, fault)

SiglentSDG2042X_waveform_type_set(chars, fault) ==
    CheckedIO(WaveOf(chars, SiglentSDG2042X_VALID_WAVEFORMS) # "",
              <<Cmd("write", "BSWV WVTP",
                    WaveOf(chars, SiglentSDG2042X_VALID_WAVEFORMS),
                    <<active_channel>>)>>, fault)

\* configure_waveform: the phase is converted and sent, never compared
SiglentSDG2042X_configure_waveform(chars, frequency, amplitude, offset, phase, fault) ==
    CheckedIO(/\ WaveOf(chars, SiglentSDG2042X_VALID_WAVEFORMS) # ""
              /\ InRange(limits.freq_min, frequency, limits.freq_max)
              /\ InRange(limits.amp_min, amplitude, limits.amp_max)
              /\ InRange(limits.offset_min, offset, limits.offset_max),
              <<Cmd("write", "BSWV WVTP,FRQ,AMP,OFST,PHSE",
                    WaveOf(chars, SiglentSDG2042X_VALID_WAVEFORMS),
                    <<active_channel, frequency, amplitude, offset, phase>>)>>, fault)

\* the key texts of a BSWV answer the getters look for
T_BSWV == <<":","B","S","W","V">>
T_FRQ == <<"F","R","Q">>
T_AMP == <<"A","M","P">>
T_OFST == <<"O","F","S","T">>
T_PHSE == <<"P","H","S","E">>
T_ON == <<"O","N">>

T_WVTP == <<"W","V","T","P">>
T_SINE == <<"S","I","N","E">>
T_1KHZ == <<"1","K","H","Z">>
T_2V == <<"2","V">>

\* the length of what `.+` can take at the start of s: up to the line end
LineLen(s) ==
    IF \A i \in 1..Len(s) : s[i] # "\n" THEN Len(s)
    ELSE (CHOOSE i \in 1..Len(s) : s[i] = "\n" /\ \A j \in 1..(i - 1) : s[j] # "\n") - 1

\* fault injection: a decoder that leaves the header in place
BswvParamsString_kept(response) == response

\* re.match(r'C\d+:BSWV\s+(.+)', response): group 1 when the header
\* matches, the whole response otherwise
BswvParamsString(response) ==
    LET d == IF response # <<>> /\ response[1] = "C"
             THEN RunLen(From(response, 2), Digits) ELSE 0
        tail == From(response, d + 2)
        rem == From(tail, Len(T_BSWV) + 1)
        ws == RunLen(rem, {" ", "\n", "\r", "\t"})
        ks == {k \in 1..ws : LineLen(From(rem, k + 1)) >= 1}
    IN IF d >= 1 /\ HasPrefix(tail, T_BSWV) /\ ks # {}
       THEN LET k == CHOOSE x \in ks : \A y \in ks : y <= x
            IN SubSeq(rem, k + 1, k + LineLen(From(rem, k + 1)))
       ELSE response

\* the while loop of _parse_parameter_response over the comma-separated
\* parts: part 2j-1 is a key, part 2j its value; a later pair with the same
\* key replaces an earlier one
PairUp(parts) ==
    LET n == Len(parts) \div 2
        keys == {Strip(parts[2 * j - 1]) : j \in 1..n}
    IN [k \in keys |->
          LET js == {j \in 1..n : Strip(parts[2 * j - 1]) = k}
              j == CHOOSE x \in js : \A y \in js : y <= x
          IN Strip(parts[2 * j])]

\* _parse_parameter_response(response): a mapping from key text to value text
SiglentSDG2042X_parse_parameter_response(response) ==
    PairUp(Split(BswvParamsString(response), ","))

\* fault injection: the unit taken without .strip()
SiglentSDG2042X_extract_value_and_unit_unstripped(value_string) ==
    LET n == NumberLen(value_string) IN
    IF n = 0 \/ ~FloatOfToken(SubSeq(value_string, 1, n))
    THEN [ok |-> FALSE, value |-> <<>>, unit |-> <<>>]
    ELSE [ok |-> TRUE, value |-> SubSeq(value_string, 1, n),
          unit |-> SubSeq(value_string, n + 1, n + LineLen(From(value_string, n + 1)))]

\* _extract_value_and_unit(value_string): ok = FALSE when it raises ValueError
SiglentSDG2042X_extract_value_and_unit(value_string) ==
    LET n == NumberLen(value_string) IN
    IF n = 0 \/ ~FloatOfToken(SubSeq(value_string, 1, n))
    THEN [ok |-> FALSE, value |-> <<>>, unit |-> <<>>]
    ELSE [ok |-> TRUE, value |-> SubSeq(value_string, 1, n),
          unit |-> Strip(SubSeq(value_string, n + 1, n + LineLen(From(value_string, n + 1))))]

\* frequency, amplitude, offset and phase getters: one BSWV? query, the
\* value paired with key; only pyvisa.Error is caught, so the ValueError of
\* _extract_value_and_unit leaves the getter as it is
SiglentSDG2042X_bswv_get(key, fault, answer) ==
    IF ~EnsureConnected THEN NotConnected
    ELSE LET x == Exchange(<<Cmd("query", "BSWV?", "", <<active_channel>>)>>, fault)
             response == Strip(answer)
             params == SiglentSDG2042X_parse_parameter_response(response)
         IN IF Raised(x) THEN Out("CommandError", x, "")
            ELSE IF key \notin DOMAIN params
            THEN Answered("CommandError", x, response, <<answer>>)
            ELSE LET e == SiglentSDG2042X_extract_value_and_unit(params[key])
                 IN IF e.ok THEN Answered("ok", x, <<e.value, e.unit>>, <<answer>>)
                    ELSE Answered("ValueError", x, "", <<answer>>)

SiglentSDG2042X_frequency_get(fault, answer) == SiglentSDG2042X_bswv_get(T_FRQ, fault, answer)
SiglentSDG2042X_amplitude_get(fault, answer) == SiglentSDG2042X_bswv_get(T_AMP, fault, answer)
SiglentSDG2042X_offset_get(fault, answer) == SiglentSDG2042X_bswv_get(T_OFST, fault, answer)
SiglentSDG2042X_phase_get(fault, answer) == SiglentSDG2042X_bswv_get(T_PHSE, fault, answer)

\* the pint unit the frequency getter hands to _format_quantity
SiglentSDG2042X_frequency_pint_unit(unit_str) ==
    IF Contains(Upper(unit_str), <<"K","H","Z">>) THEN "kilohertz"
    ELSE IF Contains(Upper(unit_str), <<"M","H","Z">>) THEN "megahertz"
    ELSE "hertz"

\* output_state getter: the first comma-separated field compared with 'ON'
SiglentSDG2042X_output_state_get(fault, answer) ==
    IF ~EnsureConnected THEN NotConnected
    ELSE LET x == Exchange(<<Cmd("query", "OUTP?", "", <<active_channel>>)>>, fault)
         IN IF Raised(x) THEN Out("CommandError", x, "")
            ELSE Answered("ok", x,
                          IF Strip(Split(Strip(answer), ",")[1]) = T_ON
                          THEN "True" ELSE "False", <<answer>>)

\* the command text configure_waveform writes (the f-string of its try block)
SiglentSDG2042X_configure_waveform_cmd(chars, frequency, amplitude, offset, phase) ==
    <<"C">> \o ToDigits(active_channel) \o T_BSWV \o <<" ">>
    \o T_WVTP \o <<",">> \o Upper(chars)
    \o <<",">> \o T_FRQ \o <<",">> \o FloatRepr(FreqValue(frequency))
    \o <<",">> \o T_AMP \o <<",">> \o FloatRepr(Volts(amplitude))
    \o <<",">> \o T_OFST \o <<",">> \o FloatRepr(Volts(offset))
    \o <<",">> \o T_PHSE \o <<",">> \o FloatRepr(Dec(phase, 0))

\* what the getters make of a BSWV response: the waveform type as the text
\* paired with WVTP, the numbers as float() of the numeric token of FRQ,
\* AMP and OFST; res tells how the first getter that fails does so
SiglentSDG2042X_read_back(response) ==
    LET params == SiglentSDG2042X_parse_parameter_response(Strip(response))
        keys == {T_WVTP, T_FRQ, T_AMP, T_OFST}
        E(key) == SiglentSDG2042X_extract_value_and_unit(params[key])
    IN IF ~(keys \subseteq DOMAIN params)
       THEN Answered("CommandError", <<>>, "", <<response>>)
       ELSE IF ~(E(T_FRQ).ok /\ E(T_AMP).ok /\ E(T_OFST).ok)
       THEN Answered("ValueError", <<>>, "", <<response>>)
       ELSE Answered("ok", <<>>,
                     [waveform_type |-> params[T_WVTP],
                      frequency |-> FreqRank(FloatOf(E(T_FRQ).value)),
                      amplitude |-> MilliVolts(FloatOf(E(T_AMP).value)),
                      offset |-> MilliVolts(FloatOf(E(T_OFST).value))],
                     <<response>>)

--------------------------------------------------------------------------
(* PhilipsPM5139 *)

\* fault injection: a facade that takes every waveform name of the family
PhilipsPM5139_VALID_WAVEFORMS_all == WaveNames

PhilipsPM5139_VALID_WAVEFORMS == {"SINE", "SQUARE", "RAMP", "PULSE", "ARB", "DC"}

\* PhilipsPM5139._WAVEFORM_TO_PM5139
PhilipsPM5139_WAVEFORM_TO_PM5139(w) ==
    CASE w = "RAMP" -> "TRNGLE"
      [] w = "PULSE" -> "POSPULSE"
      [] OTHER -> w

PhilipsPM5139_frequency_set(value, fault) ==
    CheckedIO(InRange(limits.freq_min, value, limits.freq_max),
              <<Cmd("write", "FREQ", "", <<value>>)>>, fault)

PhilipsPM5139_amplitude_set(value, fault) ==
    CheckedIO(InRange(limits.amp_min, value, limits.amp_max),
              <<Cmd("write", "AMPLTUDE", "", <<value>>)>>, fault)

PhilipsPM5139_offset_set(value, fault) ==
    CheckedIO(InRange(limits.offset_min, value, limits.offset_max),
              <<Cmd("write", "DCOFFSET", "", <<value>>)>>, fault)

\* channel getter: the constant 1
PhilipsPM5139_channel_get == Out("ok", <<>>, 1)

\* channel setter: only 1 is taken, nothing is stored
PhilipsPM5139_channel_set(value) ==
    IF value # 1 THEN Out("ValidationError", <<>>, "") ELSE Out("ok", <<>>, "")

\* phase getter: a constant, whatever the connection state
PhilipsPM5139_phase_get(ureg) ==
    Out("ok", <<>>, format_quantity("(0.0, 'DEG')", "0.0 degree", ureg))

\* fault injection: a phase setter that sends the value
PhilipsPM5139_phase_set_sent(value) ==
    CheckedIO(TRUE, <<Cmd("write", "PHASE", "", <<value>>)>>, 0)

\* phase setter: `pass`
PhilipsPM5139_phase_set(value) == Out("ok", <<>>, "")

\* get/set_pulse_width, get/set_rise_time, get/set_fall_time
PhilipsPM5139_pulse_timing == Out("ValidationError", <<>>, "")

\* list_waveforms(): a constant list
PhilipsPM5139_list_waveforms == Out("ok", <<>>, "ARB1..ARB24")

T_ARB == <<"A","R","B">>
T_DUTY == <<"D","U","T","Y">>
T_DUTYCYCLE == <<"D","U","T","Y","C","Y","C","L","E">>
T_AMPLT == <<"A","M","P","L","T">>
T_DCOFF == <<"D","C","O","F","F">>
T_UDE == <<"U","D","E">>
T_SET == <<"S","E","T">>

\* _extract_value_and_unit(value_string): ok = FALSE when it raises ValueError
PhilipsPM5139_extract_value_and_unit(value_string) ==
    LET t == Strip(value_string)
        n == NumberLen(t)
    IN IF n = 0 \/ ~FloatOfToken(SubSeq(t, 1, n))
       THEN [ok |-> FALSE, value |-> <<>>, unit |-> <<>>]
       ELSE [ok |-> TRUE, value |-> SubSeq(t, 1, n), unit |-> Strip(From(t, n + 1))]

\* the length of what [+-]?[\d.]+ matches at the start of s
MantissaLen(s) ==
    LET sign == IF s # <<>> /\ s[1] \in {"+", "-"} THEN 1 ELSE 0
        body == RunLen(From(s, sign + 1), Digits \cup {"."})
    IN IF body = 0 THEN 0 ELSE sign + body

\* re.search(r'([+-]?[\d.]+)', s): the first match, <<>> when there is none
SearchNumber(s) ==
    IF \A i \in 1..Len(s) : MantissaLen(From(s, i)) = 0 THEN <<>>
    ELSE LET k == CHOOSE i \in 1..Len(s) :
                     /\ MantissaLen(From(s, i)) > 0
                     /\ \A j \in 1..(i - 1) : MantissaLen(From(s, j)) = 0
         IN SubSeq(s, k, k + MantissaLen(From(s, k)) - 1)

\* the loop of get_duty_cycle over the parts of *LRN?: the number it
\* returns, <<>> when it falls through to the default (no part names the
\* duty cycle, or float() raised ValueError, which is swallowed)
RECURSIVE DutyFromLrn(_)
DutyFromLrn(parts) ==
    IF parts = <<>> THEN <<>>
    ELSE IF Contains(Upper(parts[1]), T_DUTY) /\ SearchNumber(parts[1]) # <<>>
    THEN (IF FloatOfToken(SearchNumber(parts[1])) THEN SearchNumber(parts[1]) ELSE <<>>)
    ELSE DutyFromLrn(Tail(parts))

DUTY_DEFAULT == <<"5","0",".","0">>
PERCENT == <<"%">>

\* get_duty_cycle(): a DUTYCYCLE? query that raises is followed by a *LRN?
\* query, and when that fails too the default is returned
PhilipsPM5139_get_duty_cycle(fault, answer, lrnfault, lrn) ==
    IF ~EnsureConnected THEN NotConnected
    ELSE LET x == Exchange(<<Cmd("query", "DUTYCYCLE?", "", <<>>)>>, fault)
             e == PhilipsPM5139_extract_value_and_unit(Strip(answer))
             y == Exchange(<<Cmd("query", "*LRN?", "", <<>>)>>, lrnfault)
             d == DutyFromLrn(Split(Strip(lrn), ";"))
         IN IF ~Raised(x)
            THEN IF e.ok
                 THEN Answered("ok", x, <<e.value, IF e.unit = <<>> THEN PERCENT ELSE e.unit>>,
                               <<answer>>)
                 ELSE Answered("ValueError", x, "", <<answer>>)
            ELSE IF Raised(y) \/ d = <<>>
            THEN Answered("ok", x \o y, <<DUTY_DEFAULT, PERCENT>>,
                          IF Raised(y) THEN <<>> ELSE <<lrn>>)
            ELSE Answered("ok", x \o y, <<d, PERCENT>>, <<lrn>>)

\* select_arbitrary_waveform(index, name); index 0 and name <<>> stand for
\* None.  The write of the name branch is outside any try block.
PhilipsPM5139_select_arbitrary_waveform(index, name, fault) ==
    LET u == Upper(name)
        digits == IF HasPrefix(u, T_ARB)
                  THEN SubSeq(u, 4, 3 + RunLen(From(u, 4), Digits)) ELSE <<>>
        idx == IntOf(digits)
    IN IF ~EnsureConnected THEN NotConnected
       ELSE IF index = 0 /\ name = <<>> THEN Out("ValidationError", <<>>, "")
       ELSE IF index # 0 /\ name # <<>> THEN Out("ValidationError", <<>>, "")
       ELSE IF index # 0
       THEN CheckedIO(1 <= index /\ index <= 24,
                      <<Cmd("write", "ARBITRARY", "", <<index>>)>>, fault)
       ELSE IF digits # <<>> /\ 1 <= idx /\ idx <= 24
       THEN LET x == Exchange(<<Cmd("write", "ARBITRARY", "", <<idx>>)>>, fault)
            IN Out(IF Raised(x) THEN "pyvisa.Error" ELSE "ok", x, "")
       ELSE Out("ValidationError", <<>>, "")

\* set_symmetry(symmetry), in percent
PhilipsPM5139_set_symmetry(symmetry, fault) ==
    CheckedIO(0 <= symmetry /\ symmetry <= 100,
              IF symmetry = 50
              THEN <<Cmd("write", "SYMMETRY ON", "", <<>>)>>
              ELSE <<Cmd("write", "SYMMETRY OFF", "", <<>>),
                     Cmd("write", "DUTYCYCLE", "", <<symmetry>>)>>,
              fault)

\* re.search(key(?:tail)?\s+(number), lrn, re.IGNORECASE): the number of the
\* first match, <<>> when there is none
LrnValue(lrn, key, tail) ==
    LET u == Upper(lrn)
        \* the number matched when the key starts at i and the rest r follows
        NumberAfter(r) ==
            LET ws == RunLen(r, {" ", "\t", "\n", "\r"})
            IN IF ws >= 1 THEN SubSeq(r, ws + 1, ws + NumberLen(From(r, ws + 1)))
               ELSE <<>>
        At(i) ==
            IF ~HasPrefix(From(u, i), key) THEN <<>>
            ELSE LET r == From(u, i + Len(key))
                 IN IF HasPrefix(r, tail) /\ NumberAfter(From(r, Len(tail) + 1)) # <<>>
                    THEN NumberAfter(From(r, Len(tail) + 1))
                    ELSE NumberAfter(r)
    IN IF \A i \in 1..Len(u) : At(i) = <<>> THEN <<>>
       ELSE At(CHOOSE i \in 1..Len(u) :
                  At(i) # <<>> /\ \A j \in 1..(i - 1) : At(j) = <<>>)

T_V == <<"V">>

\* the amplitude and offset getters: the value is looked up in the answer to
\* *LRN? and, when it is not there, asked for with a second query
PhilipsPM5139_lrn_get(key, tail, verb, fault, lrn, answer) ==
    IF ~EnsureConnected THEN NotConnected
    ELSE LET v == LrnValue(Strip(lrn), key, tail)
             x == Exchange(<<Cmd("query", "*LRN?", "", <<>>)>> \o
                           (IF v = <<>> THEN <<Cmd("query", verb, "", <<>>)>> ELSE <<>>),
                           fault)
             e == PhilipsPM5139_extract_value_and_unit(Strip(answer))
             reply == IF Len(x) = 2 /\ ~Raised(x) THEN <<lrn, answer>>
                      ELSE IF x[1].ok THEN <<lrn>> ELSE <<>>
         IN IF Raised(x) THEN Answered("CommandError", x, "", reply)
            ELSE IF v # <<>>
            THEN (IF FloatOfToken(v) THEN Answered("ok", x, <<v, T_V>>, reply)
                  ELSE Answered("CommandError", x, "", reply))
            ELSE IF e.ok
            THEN Answered("ok", x, <<e.value, IF e.unit = <<>> THEN T_V ELSE e.unit>>, reply)
            ELSE Answered("CommandError", x, "", reply)

PhilipsPM5139_amplitude_get(fault, lrn, answer) ==
    PhilipsPM5139_lrn_get(T_AMPLT, T_UDE, "AMPLTUDE?", fault, lrn, answer)

PhilipsPM5139_offset_get(fault, lrn, answer) ==
    PhilipsPM5139_lrn_get(T_DCOFF, T_SET, "DCOFFSET?", fault, lrn, answer)

PhilipsPM5139_waveform_type_set(chars, fault) ==
    LET uv == WaveOf(chars, PhilipsPM5139_VALID_WAVEFORMS)
        cmd == PhilipsPM5139_WAVEFORM_TO_PM5139(uv)
    IN CheckedIO(uv # "",
                 IF cmd = "DC"
                 THEN <<Cmd("write", "AMPLTUDE", "", <<0>>), Cmd("write", "DCON", "", <<>>)>>
                 ELSE <<Cmd("write", "WAVEFORM", cmd, <<>>)>>, fault)

Abs(x) == IF x < 0 THEN -x ELSE x

\* configure_waveform: abs(offset_v) + amp_v / 2 > 10 in volts is
\* 2 * abs(offset) + amplitude > 20000 in millivolts
PhilipsPM5139_configure_waveform(chars, frequency, amplitude, offset, phase, fault) ==
    LET uv == WaveOf(chars, PhilipsPM5139_VALID_WAVEFORMS)
        cmd == PhilipsPM5139_WAVEFORM_TO_PM5139(uv)
    IN CheckedIO(/\ uv # ""
                 /\ InRange(limits.freq_min, frequency, limits.freq_max)
                 /\ InRange(limits.amp_min, amplitude, limits.amp_max)
                 /\ InRange(limits.offset_min, offset, limits.offset_max)
                 /\ ~(2 * Abs(offset) + amplitude > 20000),
                 IF cmd = "DC"
                 THEN <<Cmd("write", "AMPLTUDE", "", <<0>>),
                        Cmd("write", "DCOFFSET", "", <<0>>),
                        Cmd("write", "DCON", "", <<>>)>>
                 ELSE <<Cmd("write", "WAVEFORM;FREQ;AMPLTUDE;DCOFFSET", cmd,
                            <<frequency, amplitude, offset>>)>>, fault)

\* the output levels the instrument holds after the transport calls ios:
\* a write that returned carries its level; the command configure_waveform
\* writes carries both
RECURSIVE LevelsAfter(_, _)
LevelsAfter(lv, ios) ==
    IF ios = <<>> THEN lv
    ELSE LET c == ios[1]
             nx == IF ~c.ok THEN lv
                   ELSE IF c.verb = "AMPLTUDE" THEN [lv EXCEPT !.amplitude = c.n[1]]
                   ELSE IF c.verb = "DCOFFSET" THEN [lv EXCEPT !.offset = c.n[1]]
                   ELSE IF c.verb = "WAVEFORM;FREQ;AMPLTUDE;DCOFFSET"
                   THEN [amplitude |-> c.n[2], offset |-> c.n[3]]
                   ELSE lv
         IN LevelsAfter(nx, Tail(ios))

--------------------------------------------------------------------------
(* RigolDP800 *)

CH_STR(n) == <<"C", "H", CASE n = 1 -> "1" [] n = 2 -> "2" [] n = 3 -> "3" [] OTHER -> "9">>

\* the channel number a channel argument names, 0 when it is rejected
\* (Channel member, 'CH1'..'CH3' in any case, or 1..3)
RigolChannelOf(channel) ==
    IF channel.t = "enum" THEN channel.n
    ELSE IF channel.t = "str"
    THEN IF \E c \in 1..3 : CH_STR(c) = Upper(channel.chars)
         THEN CHOOSE c \in 1..3 : CH_STR(c) = Upper(channel.chars)
         ELSE 0
    ELSE IF channel.t = "int" /\ channel.n \in {1, 2, 3} THEN channel.n
    ELSE 0

\* _parse_channel(channel)
RigolDP800_parse_channel(channel) == RigolChannelOf(channel)

\* channel setter: the new active channel, 0 when it raises ValidationError
RigolDP800_channel_set(value) == RigolChannelOf(value)

RigolDP800_channel_get == Out("ok", <<>>, active_channel)

RigolDP800_voltage_set(value, fault) ==
    CheckedIO(TRUE, <<Cmd("write", ":INSTrument:NSELect", "", <<active_channel>>),
                      Cmd("write", ":SOURce:VOLTage", "", <<value>>)>>, fault)

RigolDP800_current_set(value, fault) ==
    CheckedIO(TRUE, <<Cmd("write", ":INSTrument:NSELect", "", <<active_channel>>),
                      Cmd("write", ":SOURce:CURRent", "", <<value>>)>>, fault)

\* fault injection: an apply() that selects the channel before the command
RigolDP800_apply_selecting(voltage, current, channel, fault) ==
    LET ch == IF channel.t = "none" THEN active_channel
              ELSE RigolDP800_parse_channel(channel)
    IN CheckedIO(ch # 0, <<Cmd("write", ":INSTrument:NSELect", "", <<ch>>),
                           Cmd("write", ":APPLy", "", <<ch, voltage, current>>)>>, fault)

\* apply(voltage, current, channel); channel "none" is the default None
RigolDP800_apply(voltage, current, channel, fault) ==
    LET ch == IF channel.t = "none" THEN active_channel
              ELSE RigolDP800_parse_channel(channel)
    IN CheckedIO(ch # 0, <<Cmd("write", ":APPLy", "", <<ch, voltage, current>>)>>, fault)

\* the common body of get_settings and measure_all: connection check,
\* channel, one query, then the first `arity` comma-separated values of the
\* prepared answer when it has at least that many
RigolDP800_query_values(verb, arity, channel, fault, answer, values) ==
    LET ch == IF channel.t = "none" THEN active_channel
              ELSE RigolDP800_parse_channel(channel)
    IN IF ~EnsureConnected THEN NotConnected
       ELSE IF ch = 0 THEN Out("ValidationError", <<>>, "")
       ELSE LET x == Exchange(<<Cmd("query", verb, "", <<ch>>)>>, fault)
            IN IF Raised(x) THEN Out("CommandError", x, "")
               ELSE IF Len(values) >= arity /\ AllFloats(values, arity)
               THEN Answered("ok", x, [i \in 1..arity |-> Strip(values[i])], <<answer>>)
               ELSE Answered("CommandError", x, "", <<answer>>)

\* get_settings(channel): what follows the first ':' of the answer, with
\* every 'V' and 'A' taken out, split at the commas
RigolDP800_get_settings(channel, fault, answer) ==
    LET body == IF Find(answer, <<":">>) > 0
                THEN From(answer, Find(answer, <<":">>) + 1) ELSE answer
        values == Split(Strip(Remove(Remove(body, "V"), "A")), ",")
    IN RigolDP800_query_values(":APPLy?", 2, channel, fault, answer, values)

\* measure_all(channel)
RigolDP800_measure_all(channel, fault, answer) ==
    RigolDP800_query_values(":MEASure:ALL?", 3, channel, fault, answer,
                            Split(Strip(answer), ","))

\* values the output setter takes for on and for off
OutputOnValues == {"True", "'ON'", "'on'", "1"}
OutputOffValues == {"False", "'OFF'", "'off'", "0"}

\* output setter run with the active channel ch
RigolDP800_output_set(ch, value, fault) ==
    CheckedIO(value \in OutputOnValues \cup OutputOffValues,
              <<Cmd("write", ":OUTPut",
                    IF value \in OutputOnValues THEN "ON" ELSE "OFF", <<ch>>)>>, fault)

RigolDP800_output_get(fault, answer) ==
    IF ~EnsureConnected THEN NotConnected
    ELSE LET x == Exchange(<<Cmd("query", ":OUTPut:STATe?", "", <<active_channel>>)>>, fault)
         IN IF Raised(x) THEN Out("CommandError", x, "")
            ELSE Answered("ok", x,
                          IF Upper(Strip(answer)) \in {<<"O", "N">>, <<"1">>}
                          THEN "True" ELSE "False", <<answer>>)

\* output_on(channel) / output_off(channel): the selector is put back only
\* when the output setter returned
RigolDP800_output_switch(value, channel, fault) ==
    IF channel.t = "none"
    THEN [out |-> RigolDP800_output_set(active_channel, value, fault), ch |-> active_channel]
    ELSE IF RigolDP800_channel_set(channel) = 0
    THEN [out |-> Out("ValidationError", <<>>, ""), ch |-> active_channel]
    ELSE LET o == RigolDP800_output_set(RigolDP800_channel_set(channel), value, fault)
         IN [out |-> o,
             ch |-> IF o.res = "ok" THEN active_channel ELSE RigolDP800_channel_set(channel)]

NoneArg == [t |-> "none", m |-> "", chars |-> <<>>, n |-> 0]
ChannelArg(n) == [t |-> "enum", m |-> "CH", chars |-> <<>>, n |-> n]

--------------------------------------------------------------------------
(* Arguments the calls are made with *)

FuncArgs == {EnumArg("VDC"), EnumArg("VACDC"), StrArg(<<"v","a","c">>),
             StrArg(<<"b","o","g","u","s">>), OtherArg}

RateArgs == {EnumArg("FAST"), StrArg(<<"s","l","o","w">>), StrArg(<<"F">>), OtherArg}

Fluke45RangeArgs == {0, 3, 8}

Fluke88RangeArgs == {10}

WaveArgs == {<<"s","i","n","e">>, <<"D","C">>, <<"N","O","I","S","E">>,
             <<"P","R","B","S">>, <<"I","Q">>, <<"b","o","g","u","s">>}

FreqArgs == {Hz("0"), Hz("1e-6"), Hz("1e-4"), Hz("20e6"), Hz("40e6"), Hz("50e6")}

AmpArgs == {-1, 0, 2, 20000, 20001}

OffsetArgs == {-10001, -10000, 0, 10000, 10001}

PhaseArgs == {-1, 0, 360, 720}

\* answers of a PM5139 to DUTYCYCLE?, AMPLTUDE? or DCOFFSET?, and to *LRN?
A_NUMBER == <<"2","5","\n">>
A_TEXT == <<"E","R","R","\n">>
ValueAnswers == {A_NUMBER, A_TEXT}

LRN_DUTY == <<"F","R","E","Q"," ","1","0","0","0",";","D","U","T","Y","C","Y","C","L","E"," ","2","5","\n">>
LRN_AMPL == <<"A","M","P","L","T","U","D","E"," ","2",".","5",";","d","c","o","f","f"," ","-","1","\n">>
LrnAnswers == {LRN_DUTY, LRN_AMPL}

\* answers of an SDG2042X to C<n>:BSWV? and to C<n>:OUTP?
B_FULL == <<"C","1",":","B","S","W","V"," ","W","V","T","P",",","S","I","N","E",",","F","R","Q",",","1","0","0","0","H","Z",",","A","M","P",",","2","V",",","O","F","S","T",",","0","V",",","P","H","S","E",",","0","\n">>
B_NOVALUE == <<"C","1",":","B","S","W","V"," ","W","V","T","P",",","S","I","N","E",",","F","R","Q",",","H","Z",",","A","M","P",",","V",",","O","F","S","T",",",",","P","H","S","E",",","x","\n">>
B_TRAILING == <<"C","1",":","B","S","W","V"," ","F","R","Q",",","1","K","H","Z",",","A","M","P","\n">>
B_BARE == <<"W","V","T","P",",","S","I","N","E","\n">>
BswvAnswers == {B_FULL, B_NOVALUE, B_TRAILING, B_BARE}

O_FULL == <<"C","1",":","O","U","T","P"," ","O","N",",","L","O","A","D",",","H","Z","\n">>
O_OFF == <<"O","F","F",",","L","O","A","D",",","H","Z","\n">>
OutpAnswers == {O_FULL, O_OFF, <<"O","N","\n">>, <<"E","R","R","\n">>}

\* answers to MEAS?, :MEASure:ALL? and :APPLy?: one to four fields
M_ONE == <<"1",".","5","\n">>
M_TWO == <<"1",".","5",",","0",".","2","\n">>
M_THREE == <<"1",".","5",",","0",".","2",",","0",".","3","\n">>
M_FOUR == <<"1",".","5",",","0",".","2",",","0",".","3",",","9","\n">>
M_TEXT == <<"1",".","5",",","x",",","2","\n">>
MeasAnswers == {M_ONE, M_TWO, M_THREE, M_FOUR, M_TEXT}

S_ONE == <<"C","H","1",":","5",".","0","0","0","V","\n">>
S_TWO == <<"C","H","1",":","5",".","0","0","0","V",",","1",".","0","0","0","A","\n">>
S_THREE == <<"5",".","0",",","1",".","0",",","9","\n">>
S_RATED == <<"C","H","1",":","3","0","V","/","3","A",",","5",".","0","0","0",",","1",".","0","0","0","\n">>
SettingsAnswers == {S_ONE, S_TWO, S_THREE, S_RATED}

\* (index, name) pairs select_arbitrary_waveform is called with
ArbArgs ==
    {[index |-> 0, name |-> <<>>], [index |-> 5, name |-> <<>>],
     [index |-> 30, name |-> <<>>], [index |-> 5, name |-> <<"A","R","B","5">>],
     [index |-> 0, name |-> <<"a","r","b","7">>],
     [index |-> 0, name |-> <<"A","R","B","9","9">>],
     [index |-> 0, name |-> <<"s","i","n","e">>]}

SymmetryArgs == {50, 25, 101}

\* configure_waveform is called with one good argument list and with the
\* lists that differ from it in one argument (a DC request, an offset that
\* only the combined amplitude/offset bound rejects, ...)
CfgArg(w, f, a, o, p) ==
    [waveform_type |-> w, frequency |-> f, amplitude |-> a, offset |-> o, phase |-> p]

CfgGood == CfgArg(<<"s","i","n","e">>, Hz("1000"), 5000, 0, 0)

CfgArgs ==
    {CfgGood}
    \cup {[CfgGood EXCEPT !.waveform_type = w] :
             w \in {<<"D","C">>, <<"N","O","I","S","E">>, <<"P","R","B","S">>, <<"I","Q">>}}
    \cup {[CfgGood EXCEPT !.frequency = f] : f \in {Hz("0"), Hz("50e6")}}
    \cup {[CfgGood EXCEPT !.amplitude = a] : a \in {-1, 20001}}
    \cup {[CfgGood EXCEPT !.offset = o] : o \in {-10001, 8000, 10001}}
    \cup {[CfgGood EXCEPT !.phase = ph] : ph \in {-1, 360, 720}}

ChannelArgs == {NoneArg, ChannelArg(2), StrArg(<<"c","h","1">>), StrArg(<<"C","H","9">>),
                IntArg(4)}

OutputArgs == {"True", "'on'", "0", "2"}

VoltArgs == {12000}

\* values a ParameterLimits bound is set to: a wider range, a narrower one,
\* an inverted one
LimitArgs(name) ==
    CASE name = "freq_max" -> {Hz("50e6")}
      [] name = "amp_max" -> {10000}
      [] name = "offset_min" -> {12000}
      [] name = "phase_max" -> {720}
      [] OTHER -> {}

\* bound mutations made in one behaviour
MaxLimitChanges == 1

SeqsUpTo(S, n) == UNION {[1..k -> S] : k \in 0..n}

\* what list_resources() may enumerate for a family: an address its
\* auto-discovery probes and one it may skip
ListedKeys(f) ==
    CASE f = "Fluke88" -> {"TCPIP", "ASRL"}
      [] f = "RigolDP800" -> {"USB", "ASRL"}
      [] OTHER -> {"GPIB", "ASRL"}

\* which transport call of an operation that makes up to n calls raises
\* (0: none); on a handle that is closed or unset the first call raises anyway
Faults(n) == IF IsOpen(instrument) THEN 0..n ELSE {0}

\* lines instrument.read() returns on a serial link (the '\n' that ends
\* them is taken off by the transport)
RL_OK == <<"=",">","\r">>
RL_VALUE == <<"=",">"," ","1","\r">>
RL_TIGHT == <<"=",">","1">>
RL_SYNTAX == <<"?",">","s","y","n","t","a","x">>
RL_EXEC == <<"!",">","\r">>
RL_PLAIN == <<"+","1",".","5","E","+","0","\r">>
RL_BARE == <<"+","1",".","5">>
ReadLines == {RL_OK, RL_VALUE, RL_TIGHT, RL_SYNTAX, RL_EXEC, RL_PLAIN, RL_BARE, <<>>}

\* texts _parse_parameter_response is given: a header or none, followed by
\* up to MaxElems comma-separated elements
MaxElems == 3
H_C1 == <<"C","1",":","B","S","W","V"," ">>
H_C2 == <<"C","2",":","B","S","W","V"," "," ">>
ParseHeaders == {<<>>, H_C1, H_C2}
ParseTokens == {T_FRQ, T_AMP, T_2V}
SCENARIO_C == [header |-> H_C1, elems |-> <<T_WVTP, T_SINE, T_FRQ, T_1KHZ, T_AMP, T_2V>>]
ParseArgs ==
    {[header |-> h, elems |-> e] : h \in ParseHeaders, e \in SeqsUpTo(ParseTokens, MaxElems)}
    \cup {SCENARIO_C}

\* ','.join(elems)
RECURSIVE Join(_)
Join(elems) ==
    IF elems = <<>> THEN <<>>
    ELSE IF Len(elems) = 1 THEN elems[1]
    ELSE elems[1] \o <<",">> \o Join(Tail(elems))

ParseText(a) == a.header \o Join(a.elems)

\* configurations whose command text is read back
RoundTripArgs ==
    {CfgArg(w, f, a, o, 90) :
        w \in {<<"s","i","n","e">>, <<"D","c">>, <<"b","o","g","u","s">>},
        f \in {Hz("1e-6"), Hz("1e-4"), Hz("40e6"), Hz("50e6")},
        a \in {2, 20000, 20001},
        o \in {-10000, -5, 2500}}

\* numbers as their text and the float they stand for
NumberTexts ==
    {<<<<"1","0","0","0">>, Dec(1000, 0)>>,
     <<<<"-","2",".","5">>, Dec(-25, -1)>>,
     <<<<"+",".","5">>, Dec(5, -1)>>,
     <<<<"1","e","3">>, Dec(1, 3)>>,
     <<<<"2",".","5","E","-","3">>, Dec(25, -4)>>,
     <<<<"5",".">>, Dec(5, 0)>>}

UnitSuffixes ==
    {<<>>,
     <<"H","Z">>,
     <<"K","H","Z">>,
     <<"M","H","Z">>,
     <<"k","H","z">>,
     <<"m","H","z">>,
     <<"V">>,
     <<"V","p","p">>}

\* texts the number pattern does not match, or matches with a token float()
\* does not take
NoNumberTexts ==
    {<<>>,
     <<" ","1">>,
     <<"H","Z">>,
     <<"a","b","c">>,
     <<"e","5">>,
     <<"-">>,
     <<"+","-","1">>,
     <<".">>,
     <<"1",".","2",".","3","H","Z">>}

\* value strings: a number, white space or none, a unit suffix or none;
\* and strings that do not start with a number
ValueUnitArgs ==
    {[numeric |-> TRUE, num |-> n[1], value |-> n[2], gap |-> g, unit |-> u] :
        n \in NumberTexts, g \in {<<>>, <<" ">>}, u \in UnitSuffixes}
    \cup {[numeric |-> FALSE, num |-> t, value |-> Dec(0, 0), gap |-> <<>>, unit |-> <<>>] :
        t \in NoNumberTexts}

ValueUnitText(a) == a.num \o a.gap \o a.unit

\* lines a Fluke45 query reads: a value behind the '=>' prompt, an error
\* prompt, a value alone
QueryLines ==
    {<<"=",">"," ","1","\r">>,
     <<"=",">"," ","+","1",".","5","E","+","0","\r">>,
     <<"=",">"," ","1",".","5",",","0",".","2","\r">>,
     <<"=",">"," ","P","A","S","S","\r">>,
     <<"?",">","\r">>,
     <<"!",">","\r">>,
     <<"1","\r">>,
     <<"+","1",".","5","E","+","0","\r">>,
     <<"1",".","5",",","0",".","2","\r">>,
     <<"P","A","S","S","\r">>}

Fluke45Getters == {"auto_range.get", "primary", "secondary", "both",
                   "primary_value", "secondary_value", "compare_result"}

\* how the transport answers a Fluke45 command: call number fault raises,
\* or (on a serial link) the prompt line read back
Fluke45Replies ==
    {r \in [fault : Faults(2), line : PromptLines] :
        /\ (r.fault # 0 \/ ~is_serial) => r.line = L_OK
        /\ r.fault = 2 => is_serial}

--------------------------------------------------------------------------
(* The state machine *)

Snapshot ==
    [instrument |-> instrument, open |-> IsOpen(instrument),
     current_function |-> current_function, active_channel |-> active_channel,
     resource_name |-> resource_name, session |-> hist.session]

\* the resource_name a facade is constructed with ("": none); the serial
\* address matters to the two families that treat a serial link specially
InitResources(f) ==
    IF f \in {"Fluke45", "PhilipsPM5139"} THEN {"", "GPIB", "ASRL"} ELSE {"", "GPIB"}

\* the resource_name given together with an addressing field: none, or an
\* address other than the one connect() builds from the field
InitResourcesWith(a) ==
    IF a = {} THEN InitResources(family)
    ELSE IF Cardinality(a) > 1 THEN {""}
    ELSE IF a = {"serial_port"} THEN {"", "GPIB"}
    ELSE {"", "ASRL"}

InitFacade ==
    /\ instrument = 0
    /\ is_serial = FALSE
    /\ current_function = ""
    /\ active_channel = 1
    /\ limits = IF family = "PhilipsPM5139" THEN PhilipsPM5139_init_limits
                ELSE ParameterLimits_init
    /\ unit_mode = "tuple"
    /\ handles = <<>>
    /\ last = [op |-> "__init__", arg |-> <<>>, res |-> "ok", ret |-> "", reply |-> <<>>]
    /\ io = <<>>
    /\ hist = [session |-> "new", func_called |-> FALSE, func_ok |-> "",
               func_session |-> FALSE, limit_changes |-> 0, scope |-> "out",
               levels |-> [amplitude |-> 0, offset |-> 0]]
    /\ pre = [instrument |-> 0, open |-> FALSE, current_function |-> "",
              active_channel |-> 1, resource_name |-> resource_name,
              session |-> "new"]

Init ==
    /\ family \in Families
    /\ addr \in {a \in SUBSET Fields(family) : Cardinality(a) <= 2}
    /\ resource_name \in InitResourcesWith(addr)
    /\ InitFacade

\* bookkeeping common to every call
Called(op, arg, out) ==
    /\ last' = [op |-> op, arg |-> arg, res |-> out.res, ret |-> out.ret,
                reply |-> out.reply]
    /\ io' = out.io
    /\ pre' = Snapshot

\* a call that changes no field of the facade
Plain(op, arg, out) ==
    /\ Called(op, arg, out)
    /\ UNCHANGED <<family, unit_mode, addr, resource_name, instrument, is_serial,
                   current_function, active_channel, limits, handles, hist>>

ConnectDone(c) ==
    /\ instrument' = c.inst
    /\ resource_name' = c.rn
    /\ is_serial' = c.ser
    /\ handles' = c.hs
    /\ Called("connect", <<>>,
              Out(c.res, c.io, [idn |-> c.idn, opened |-> c.opened]))
    /\ hist' = [hist EXCEPT
                    !.session = IF c.res = "ok" THEN "connected" ELSE hist.session,
                    !.func_session = IF c.res = "ok" THEN FALSE ELSE hist.func_session]
    /\ UNCHANGED <<family, unit_mode, addr, current_function, active_channel, limits>>

Connect ==
    /\ ~UsesAutoDiscovery
    /\ Len(handles) < MaxHandles
    /\ \E o \in DirectOutcomes(family) : ConnectDone(DirectConnect(o))

ConnectAuto ==
    /\ UsesAutoDiscovery
    /\ \E rs \in SeqsUpTo(ListedKeys(family), MaxResources) :
          /\ Len(handles) + Len(rs) <= MaxHandles
          /\ \E listfault \in (IF rs = <<>> THEN BOOLEAN ELSE {FALSE}),
                os \in [1..Len(rs) -> Outcomes(family)] :
                /\ \A i \in 1..Len(rs) :
                      ~AutoProbes(family, rs[i]) => os[i] = "openfail"
                /\ ConnectDone(AutoConnect(listfault, rs, os))

Disconnect ==
    \E closefault \in BOOLEAN :
       LET d == disconnect(closefault) IN
       /\ instrument' = d.inst
       /\ handles' = d.hs
       /\ Called("disconnect", <<>>,
                 Out(d.res, <<>>,
                     IF last.op = "disconnect" /\ last.res = "ok" THEN "again" ELSE ""))
       /\ hist' = [hist EXCEPT
                      !.session = IF d.res = "ok" /\ hist.session = "connected"
                                  THEN "disconnected" ELSE hist.session]
       /\ UNCHANGED <<family, unit_mode, addr, resource_name, is_serial, current_function,
                      active_channel, limits>>

(* Fluke45 *)

Fluke45SetPrimaryFunction ==
    /\ family = "Fluke45"
    /\ \E value \in FuncArgs, r \in Fluke45Replies :
          Plain("primary_function.set", value,
                Fluke45_primary_function_set(value, r.fault, r.line))

Fluke45Getter ==
    /\ family = "Fluke45"
    /\ \E name \in {"primary_function.get", "secondary_function.get",
                    "range.get", "rate.get"} :
          Plain(name, <<>>, Fluke45_placeholder_get)

Fluke45SetRange ==
    /\ family = "Fluke45"
    /\ \E value \in Fluke45RangeArgs, r \in Fluke45Replies :
          Plain("range.set", value, Fluke45_range_set(value, r.fault, r.line))

Fluke45SetRate ==
    /\ family = "Fluke45"
    /\ \E value \in RateArgs, r \in Fluke45Replies :
          Plain("rate.set", value, Fluke45_rate_set(value, r.fault, r.line))

Fluke45SetAutoRange ==
    /\ family = "Fluke45"
    /\ \E value \in BOOLEAN, r \in Fluke45Replies :
          Plain("auto_range.set", value, Fluke45_auto_range_set(value, r.fault, r.line))

Fluke45GetAutoRange ==
    /\ family = "Fluke45"
    /\ \E fault \in Faults(1), answer \in StateAnswers :
          Plain("auto_range.get", <<>>, Fluke45_auto_range_get(fault, answer))

Fluke45Both ==
    /\ family = "Fluke45"
    /\ \E fault \in Faults(1), answer \in MeasAnswers :
          Plain("both", <<>>, Fluke45_both(fault, answer))

(* Fluke88 *)

Fluke88SetPrimaryFunction ==
    /\ family = "Fluke88"
    /\ \E value \in FuncArgs, fault \in Faults(1) :
          LET r == Fluke88_primary_function_set(value, fault) IN
          /\ current_function' = r.cf
          /\ Called("primary_function.set", value, r.out)
          /\ hist' = [hist EXCEPT
                         !.func_called = TRUE,
                         !.func_session = TRUE,
                         !.func_ok = IF r.out.res = "ok"
                                     THEN Fluke88_FUNCTION_MAP(Fluke88FuncEnum(value))
                                     ELSE hist.func_ok]
          /\ UNCHANGED <<family, unit_mode, addr, resource_name, instrument, is_serial,
                         active_channel, limits, handles>>

Fluke88Getter ==
    /\ family = "Fluke88"
    /\ \E name \in {"primary_function.get", "auto_range.get", "range.get", "rate.get"} :
          Plain(name, <<>>, Fluke88_placeholder_get)

Fluke88GetSecondaryFunction ==
    /\ family = "Fluke88"
    /\ Plain("secondary_function.get", <<>>, Fluke88_secondary_function_get)

Fluke88Unsupported ==
    /\ family = "Fluke88"
    /\ \E name \in {"secondary_function.set", "secondary", "both", "secondary_value"} :
          Plain(name, <<>>, Fluke88_unsupported)

Fluke88SetAutoRange ==
    /\ family = "Fluke88"
    /\ \E value \in BOOLEAN, fault \in Faults(1) :
          Plain("auto_range.set", value, Fluke88_auto_range_set(value, fault))

Fluke88SetRange ==
    /\ family = "Fluke88"
    /\ \E value \in Fluke88RangeArgs, fault \in Faults(1) :
          Plain("range.set", value, Fluke88_range_set(value, fault))

Fluke88SetRate ==
    /\ family = "Fluke88"
    /\ \E value \in RateArgs, fault \in Faults(1) :
          Plain("rate.set", value, Fluke88_rate_set(value, fault))

(* RigolDP800 *)

RigolSetChannel ==
    /\ family = "RigolDP800"
    /\ \E value \in ChannelArgs \ {NoneArg} :
          LET ch == RigolDP800_channel_set(value) IN
          /\ active_channel' = IF ch = 0 THEN active_channel ELSE ch
          /\ Called("channel.set", value,
                    Out(IF ch = 0 THEN "ValidationError" ELSE "ok", <<>>, ""))
          /\ UNCHANGED <<family, unit_mode, addr, resource_name, instrument, is_serial,
                         current_function, limits, handles, hist>>

RigolGetChannel ==
    /\ family = "RigolDP800"
    /\ Plain("channel.get", <<>>, RigolDP800_channel_get)

RigolSetVoltage ==
    /\ family = "RigolDP800"
    /\ \E value \in VoltArgs, fault \in Faults(2) :
          Plain("voltage.set", value, RigolDP800_voltage_set(value, fault))

RigolSetCurrent ==
    /\ family = "RigolDP800"
    /\ \E value \in VoltArgs, fault \in Faults(2) :
          Plain("current.set", value, RigolDP800_current_set(value, fault))

RigolApply ==
    /\ family = "RigolDP800"
    /\ \E voltage \in VoltArgs, current \in {2000}, channel \in ChannelArgs, fault \in Faults(1) :
          Plain("apply", [voltage |-> voltage, current |-> current, channel |-> channel],
                RigolDP800_apply(voltage, current, channel, fault))

RigolSetOutput ==
    /\ family = "RigolDP800"
    /\ \E value \in OutputArgs, fault \in Faults(1) :
          Plain("output.set", value, RigolDP800_output_set(active_channel, value, fault))

RigolGetOutput ==
    /\ family = "RigolDP800"
    /\ \E fault \in Faults(1), answer \in StateAnswers :
          Plain("output.get", <<>>, RigolDP800_output_get(fault, answer))

RigolOutputSwitch ==
    /\ family = "RigolDP800"
    /\ \E on \in BOOLEAN, channel \in ChannelArgs, fault \in Faults(1) :
          LET r == RigolDP800_output_switch(IF on THEN "True" ELSE "False", channel, fault) IN
          /\ active_channel' = r.ch
          /\ Called(IF on THEN "output_on" ELSE "output_off", channel, r.out)
          /\ UNCHANGED <<family, unit_mode, addr, resource_name, instrument, is_serial,
                         current_function, limits, handles, hist>>

RigolGetSettings ==
    /\ family = "RigolDP800"
    /\ \E channel \in ChannelArgs, fault \in Faults(1), answer \in SettingsAnswers :
          Plain("get_settings", channel, RigolDP800_get_settings(channel, fault, answer))

RigolMeasureAll ==
    /\ family = "RigolDP800"
    /\ \E channel \in ChannelArgs, fault \in Faults(1), answer \in MeasAnswers :
          Plain("measure_all", channel, RigolDP800_measure_all(channel, fault, answer))

(* SiglentSDG2042X *)

SiglentSetChannel ==
    /\ family = "SiglentSDG2042X"
    /\ \E value \in 1..3 :
          LET ch == SiglentSDG2042X_channel_set(value) IN
          /\ active_channel' = IF ch = 0 THEN active_channel ELSE ch
          /\ Called("channel.set", value,
                    Out(IF ch = 0 THEN "ValidationError" ELSE "ok", <<>>, ""))
          /\ UNCHANGED <<family, unit_mode, addr, resource_name, instrument, is_serial,
                         current_function, limits, handles, hist>>

SiglentGetChannel ==
    /\ family = "SiglentSDG2042X"
    /\ Plain("channel.get", <<>>, SiglentSDG2042X_channel_get)

GetUnitMode ==
    /\ family \in {"SiglentSDG2042X", "PhilipsPM5139"}
    /\ Plain("unit_mode.get", <<>>, unit_mode_get)

SetUnitMode ==
    /\ family \in {"SiglentSDG2042X", "PhilipsPM5139"}
    /\ \E value \in {"pint", "tuple", "quantity"} :
          /\ unit_mode' = IF unit_mode_set(value) = "" THEN unit_mode
                          ELSE unit_mode_set(value)
          /\ Called("unit_mode.set", value,
                    Out(IF unit_mode_set(value) = "" THEN "ValidationError" ELSE "ok",
                        <<>>, ""))
          /\ UNCHANGED <<family, addr, resource_name, instrument, is_serial,
                         current_function, active_channel, limits, handles, hist>>

SiglentSetFrequency ==
    /\ family = "SiglentSDG2042X"
    /\ \E value \in FreqArgs, fault \in Faults(1) :
          Plain("frequency.set", value, SiglentSDG2042X_frequency_set(value, fault))

SiglentSetAmplitude ==
    /\ family = "SiglentSDG2042X"
    /\ \E value \in AmpArgs, fault \in Faults(1) :
          Plain("amplitude.set", value, SiglentSDG2042X_amplitude_set(value, fault))

SiglentSetOffset ==
    /\ family = "SiglentSDG2042X"
    /\ \E value \in OffsetArgs, fault \in Faults(1) :
          Plain("offset.set", value, SiglentSDG2042X_offset_set(value, fault))

SiglentSetPhase ==
    /\ family = "SiglentSDG2042X"
    /\ \E value \in PhaseArgs, fault \in Faults(1) :
          Plain("phase.set", value, SiglentSDG2042X_phase_set(value, fault))

SiglentSetWaveformType ==
    /\ family = "SiglentSDG2042X"
    /\ \E value \in WaveArgs, fault \in Faults(1) :
          Plain("waveform_type.set", value, SiglentSDG2042X_waveform_type_set(value, fault))

SiglentConfigureWaveform ==
    /\ family = "SiglentSDG2042X"
    /\ \E a \in CfgArgs, fault \in Faults(1) :
          Plain("configure_waveform", a,
                SiglentSDG2042X_configure_waveform(a.waveform_type, a.frequency,
                    a.amplitude, a.offset, a.phase, fault))

SiglentGetFrequency ==
    /\ family = "SiglentSDG2042X"
    /\ \E fault \in Faults(1), answer \in BswvAnswers :
          Plain("frequency.get", <<>>, SiglentSDG2042X_frequency_get(fault, answer))

SiglentGetAmplitude ==
    /\ family = "SiglentSDG2042X"
    /\ \E fault \in Faults(1), answer \in BswvAnswers :
          Plain("amplitude.get", <<>>, SiglentSDG2042X_amplitude_get(fault, answer))

SiglentGetOffset ==
    /\ family = "SiglentSDG2042X"
    /\ \E fault \in Faults(1), answer \in BswvAnswers :
          Plain("offset.get", <<>>, SiglentSDG2042X_offset_get(fault, answer))

SiglentGetPhase ==
    /\ family = "SiglentSDG2042X"
    /\ \E fault \in Faults(1), answer \in BswvAnswers :
          Plain("phase.get", <<>>, SiglentSDG2042X_phase_get(fault, answer))

SiglentGetOutputState ==
    /\ family = "SiglentSDG2042X"
    /\ \E fault \in Faults(1), answer \in OutpAnswers :
          Plain("output_state.get", <<>>, SiglentSDG2042X_output_state_get(fault, answer))

(* PhilipsPM5139 *)

PhilipsSetFrequency ==
    /\ family = "PhilipsPM5139"
    /\ \E value \in FreqArgs, fault \in Faults(1) :
          Plain("frequency.set", value, PhilipsPM5139_frequency_set(value, fault))

PhilipsSetAmplitude ==
    /\ family = "PhilipsPM5139"
    /\ \E value \in AmpArgs, fault \in Faults(1) :
          Plain("amplitude.set", value, PhilipsPM5139_amplitude_set(value, fault))

PhilipsSetOffset ==
    /\ family = "PhilipsPM5139"
    /\ \E value \in OffsetArgs, fault \in Faults(1) :
          Plain("offset.set", value, PhilipsPM5139_offset_set(value, fault))

PhilipsGetChannel ==
    /\ family = "PhilipsPM5139"
    /\ Plain("channel.get", <<>>, PhilipsPM5139_channel_get)

PhilipsSetChannel ==
    /\ family = "PhilipsPM5139"
    /\ \E value \in {1, 2} : Plain("channel.set", value, PhilipsPM5139_channel_set(value))

PhilipsGetPhase ==
    /\ family = "PhilipsPM5139"
    /\ \E ureg \in BOOLEAN : Plain("phase.get", <<>>, PhilipsPM5139_phase_get(ureg))

PhilipsSetPhase ==
    /\ family = "PhilipsPM5139"
    /\ \E value \in PhaseArgs : Plain("phase.set", value, PhilipsPM5139_phase_set(value))

PhilipsPulseTiming ==
    /\ family = "PhilipsPM5139"
    /\ \E name \in {"get_pulse_width", "set_pulse_width", "get_rise_time",
                    "set_rise_time", "get_fall_time", "set_fall_time"} :
          Plain(name, <<>>, PhilipsPM5139_pulse_timing)

PhilipsListWaveforms ==
    /\ family = "PhilipsPM5139"
    /\ Plain("list_waveforms", <<>>, PhilipsPM5139_list_waveforms)

\* a reply matters only to a query that returned
PhilipsGetDutyCycle ==
    /\ family = "PhilipsPM5139"
    /\ \E fault \in Faults(1), answer \in ValueAnswers,
          lrnfault \in Faults(1), lrn \in LrnAnswers :
          /\ (fault = 0 /\ IsOpen(instrument)) => (lrnfault = 0 /\ lrn = LRN_DUTY)
          /\ (fault # 0 \/ ~IsOpen(instrument)) => answer = A_NUMBER
          /\ lrnfault # 0 => lrn = LRN_DUTY
          /\ Plain("get_duty_cycle", <<>>,
                   PhilipsPM5139_get_duty_cycle(fault, answer, lrnfault, lrn))

PhilipsSelectArbitraryWaveform ==
    /\ family = "PhilipsPM5139"
    /\ \E a \in ArbArgs, fault \in Faults(1) :
          Plain("select_arbitrary_waveform", a,
                PhilipsPM5139_select_arbitrary_waveform(a.index, a.name, fault))

PhilipsSetSymmetry ==
    /\ family = "PhilipsPM5139"
    /\ \E symmetry \in SymmetryArgs, fault \in Faults(2) :
          Plain("set_symmetry", symmetry, PhilipsPM5139_set_symmetry(symmetry, fault))

PhilipsGetAmplitude ==
    /\ family = "PhilipsPM5139"
    /\ \E fault \in Faults(2), lrn \in LrnAnswers, answer \in ValueAnswers :
          /\ fault # 0 => answer = A_NUMBER
          /\ Plain("amplitude.get", <<>>, PhilipsPM5139_amplitude_get(fault, lrn, answer))

PhilipsGetOffset ==
    /\ family = "PhilipsPM5139"
    /\ \E fault \in Faults(2), lrn \in LrnAnswers, answer \in ValueAnswers :
          /\ fault # 0 => answer = A_NUMBER
          /\ Plain("offset.get", <<>>, PhilipsPM5139_offset_get(fault, lrn, answer))

PhilipsSetWaveformType ==
    /\ family = "PhilipsPM5139"
    /\ \E value \in WaveArgs :
       \E fault \in Faults(IF Upper(value) = WaveChars("DC") THEN 2 ELSE 1) :
          Plain("waveform_type.set", value, PhilipsPM5139_waveform_type_set(value, fault))

PhilipsConfigureWaveform ==
    /\ family = "PhilipsPM5139"
    /\ \E a \in CfgArgs :
       \E fault \in Faults(IF Upper(a.waveform_type) = WaveChars("DC") THEN 3 ELSE 1) :
          Plain("configure_waveform", a,
                PhilipsPM5139_configure_waveform(a.waveform_type, a.frequency,
                    a.amplitude, a.offset, a.phase, fault))

(* ParameterLimits of the two signal generators *)

SetLimit ==
    /\ family \in {"SiglentSDG2042X", "PhilipsPM5139"}
    /\ hist.limit_changes < MaxLimitChanges
    /\ \E name \in LimitNames : \E value \in LimitArgs(name) :
          /\ limits' = ParameterLimits_set(limits, name, value)
          /\ Called("limits.set", [name |-> name, value |-> value], Out("ok", <<>>, ""))
          /\ hist' = [hist EXCEPT !.limit_changes = hist.limit_changes + 1]
          /\ UNCHANGED <<family, unit_mode, addr, resource_name, instrument, is_serial,
                         current_function, active_channel, handles>>

ResetLimits ==
    /\ family \in {"SiglentSDG2042X", "PhilipsPM5139"}
    /\ limits' = ParameterLimits_reset_to_defaults
    /\ Called("limits.reset_to_defaults", <<>>, Out("ok", <<>>, ""))
    /\ UNCHANGED <<family, unit_mode, addr, resource_name, instrument, is_serial,
                   current_function, active_channel, handles, hist>>

\* every facade, every way to connect, the limits as the constructor left them
Next ==
    \/ Connect \/ ConnectAuto \/ Disconnect
    \/ Fluke45SetPrimaryFunction \/ Fluke45Getter \/ Fluke45SetRange
    \/ Fluke45SetRate \/ Fluke45SetAutoRange \/ Fluke45GetAutoRange \/ Fluke45Both
    \/ Fluke88SetPrimaryFunction \/ Fluke88Getter \/ Fluke88GetSecondaryFunction
    \/ Fluke88Unsupported \/ Fluke88SetAutoRange \/ Fluke88SetRange \/ Fluke88SetRate
    \/ RigolSetChannel \/ RigolGetChannel \/ RigolSetVoltage \/ RigolSetCurrent \/ RigolApply
    \/ RigolSetOutput \/ RigolGetOutput \/ RigolOutputSwitch
    \/ RigolGetSettings \/ RigolMeasureAll
    \/ SiglentSetChannel \/ SiglentGetChannel \/ GetUnitMode \/ SetUnitMode
    \/ SiglentSetFrequency \/ SiglentSetAmplitude
    \/ SiglentSetOffset \/ SiglentSetPhase \/ SiglentSetWaveformType
    \/ SiglentConfigureWaveform
    \/ SiglentGetFrequency \/ SiglentGetAmplitude \/ SiglentGetOffset
    \/ SiglentGetPhase \/ SiglentGetOutputState
    \/ PhilipsSetFrequency \/ PhilipsSetAmplitude \/ PhilipsSetOffset
    \/ PhilipsGetChannel \/ PhilipsSetChannel
    \/ PhilipsGetPhase \/ PhilipsSetPhase \/ PhilipsPulseTiming \/ PhilipsListWaveforms
    \/ PhilipsSetWaveformType \/ PhilipsConfigureWaveform
    \/ PhilipsGetDutyCycle \/ PhilipsSelectArbitraryWaveform \/ PhilipsSetSymmetry
    \/ PhilipsGetAmplitude \/ PhilipsGetOffset

Spec == Init /\ [][Next]_vars

\* the two signal generators in their first session, addressed by
\* resource_name, with the bounds of their ParameterLimits changed by the user
InitLimits ==
    /\ family \in {"SiglentSDG2042X", "PhilipsPM5139"}
    /\ addr = {}
    /\ resource_name = "GPIB"
    /\ InitFacade

FirstConnect == handles = <<>> /\ Connect

NextLimits ==
    \/ FirstConnect \/ Disconnect
    \/ SetLimit \/ ResetLimits
    \/ SiglentSetFrequency \/ SiglentSetAmplitude
    \/ SiglentSetOffset \/ SiglentSetPhase \/ SiglentConfigureWaveform
    \/ PhilipsSetFrequency \/ PhilipsSetAmplitude \/ PhilipsSetOffset
    \/ PhilipsConfigureWaveform

SpecLimits == InitLimits /\ [][NextLimits]_vars


--------------------------------------------------------------------------
(* The decoders of instrument answers, called on their own *)

InitDecode ==
    /\ family \in {"Fluke45", "SiglentSDG2042X"}
    /\ addr = {}
    /\ resource_name \in (IF family = "Fluke45" THEN {"GPIB", "ASRL"} ELSE {"GPIB"})
    /\ InitFacade

Fluke45ReadResponse ==
    /\ family = "Fluke45"
    /\ \E fault \in Faults(1), line \in ReadLines :
          Plain("_read_response", <<>>, Fluke45_read_response_method(fault, line))

SiglentParseParameterResponse ==
    /\ family = "SiglentSDG2042X"
    /\ \E a \in ParseArgs :
          Plain("_parse_parameter_response", a,
                Out("ok", <<>>, SiglentSDG2042X_parse_parameter_response(ParseText(a))))

\* a getter or measurement query that reads one of the lines
Fluke45QueryLine ==
    /\ family = "Fluke45"
    /\ \E op \in Fluke45Getters, fault \in Faults(1), line \in QueryLines :
          Plain(op, <<>>, Fluke45_getter(op, fault, line))

NextDecode ==
    \/ FirstConnect \/ Disconnect
    \/ Fluke45ReadResponse \/ SiglentParseParameterResponse
    \/ Fluke45QueryLine

SpecDecode == InitDecode /\ [][NextDecode]_vars


--------------------------------------------------------------------------
(* The facade used as a context manager: `with facade: body` *)

\* fault injection: an __exit__ that disconnects only after a clean body
exit_skipping(exc, closefault) ==
    IF exc = "none"
    THEN [d |-> disconnect(closefault), disconnects |-> 1, suppress |-> FALSE]
    ELSE [d |-> [inst |-> instrument, hs |-> handles, res |-> "ok"],
          disconnects |-> 0, suppress |-> FALSE]

\* __exit__(exc_type, exc_val, exc_tb): self.disconnect(), and None is
\* returned, so the exception of the body is not suppressed
exit(exc, closefault) ==
    [d |-> disconnect(closefault), disconnects |-> 1, suppress |-> FALSE]

\* what leaves the with statement: the exception __exit__ raised, else the
\* one the body raised unless __exit__ suppressed it, else none
Propagated(exc, x) ==
    IF x.d.res # "ok" THEN x.d.res
    ELSE IF exc # "none" /\ ~x.suppress THEN exc
    ELSE "none"

InitScope ==
    /\ family \in Families
    /\ addr = {}
    /\ resource_name = "GPIB"
    /\ InitFacade

\* the body is running and has not raised
InBody == hist.scope = "in" /\ last.res = "ok"

\* the exception the body ended with, "none" when it has not raised
BodyException == IF hist.scope = "in" /\ last.res # "ok" THEN last.res ELSE "none"

\* __enter__(): self.connect(); when connect() raises the body is not run
\* and __exit__ is not called
ScopeEnter ==
    /\ hist.scope # "in"
    /\ Len(handles) < MaxHandles
    /\ \E o \in DirectOutcomes(family) :
          LET c == DirectConnect(o) IN
          /\ instrument' = c.inst
          /\ resource_name' = c.rn
          /\ is_serial' = c.ser
          /\ handles' = c.hs
          /\ Called("__enter__", <<>>, Out(c.res, c.io, [idn |-> c.idn, opened |-> c.opened]))
          /\ hist' = [hist EXCEPT
                         !.session = IF c.res = "ok" THEN "connected" ELSE hist.session,
                         !.func_session = IF c.res = "ok" THEN FALSE ELSE hist.func_session,
                         !.scope = IF c.res = "ok" THEN "in" ELSE "failed"]
          /\ UNCHANGED <<family, unit_mode, addr, current_function, active_channel, limits>>

\* one more call of the body
ScopeBody ==
    /\ InBody
    /\ \/ Fluke45SetPrimaryFunction \/ Fluke88SetPrimaryFunction
       \/ RigolApply \/ SiglentSetFrequency \/ PhilipsSetFrequency

\* the with statement ends, the body done or having raised: __exit__ runs
ScopeExit ==
    /\ hist.scope = "in"
    /\ \E closefault \in BOOLEAN :
          LET exc == BodyException
              x == exit(exc, closefault)
          IN /\ instrument' = x.d.inst
             /\ handles' = x.d.hs
             /\ Called("__exit__", [exc |-> exc],
                       Out(x.d.res, <<>>,
                           [disconnects |-> x.disconnects,
                            propagated |-> Propagated(exc, x)]))
             /\ hist' = [hist EXCEPT
                            !.session = IF x.d.res = "ok" /\ x.disconnects > 0
                                        THEN "disconnected" ELSE hist.session,
                            !.scope = "exited"]
             /\ UNCHANGED <<family, unit_mode, addr, resource_name, is_serial,
                            current_function, active_channel, limits>>

NextScope == ScopeEnter \/ ScopeBody \/ ScopeExit

SpecScope == InitScope /\ [][NextScope]_vars

--------------------------------------------------------------------------
(* A configuration written by configure_waveform and read back *)

InitRoundTrip ==
    /\ family = "SiglentSDG2042X"
    /\ addr = {}
    /\ resource_name = "GPIB"
    /\ InitFacade

\* configure_waveform; the command text written is kept as ret
SiglentConfigureWaveformWritten ==
    /\ family = "SiglentSDG2042X"
    /\ \E a \in RoundTripArgs, fault \in Faults(1) :
          LET out == SiglentSDG2042X_configure_waveform(a.waveform_type, a.frequency,
                         a.amplitude, a.offset, a.phase, fault)
          IN Plain("configure_waveform", a,
                   IF out.res = "ok"
                   THEN Out("ok", out.io,
                            SiglentSDG2042X_configure_waveform_cmd(a.waveform_type,
                                a.frequency, a.amplitude, a.offset, a.phase))
                   ELSE out)

\* the instrument answers BSWV? with the parameters as they were written
SiglentReadBack ==
    /\ last.op = "configure_waveform"
    /\ last.res = "ok"
    /\ Plain("read_back", last.arg, SiglentSDG2042X_read_back(last.ret \o <<"\n">>))

NextRoundTrip ==
    \/ FirstConnect \/ SiglentSetChannel
    \/ SiglentConfigureWaveformWritten \/ SiglentReadBack

SpecRoundTrip == InitRoundTrip /\ [][NextRoundTrip]_vars

--------------------------------------------------------------------------
(* The value-and-unit extractor and the frequency getter built on it *)

InitValueUnit ==
    /\ family = "SiglentSDG2042X"
    /\ addr = {}
    /\ resource_name = "GPIB"
    /\ InitFacade

\* _extract_value_and_unit(value_string) called on its own
SiglentExtractValueAndUnit ==
    /\ family = "SiglentSDG2042X"
    /\ \E a \in ValueUnitArgs :
          LET e == SiglentSDG2042X_extract_value_and_unit(ValueUnitText(a))
          IN Plain("_extract_value_and_unit", a,
                   IF e.ok
                   THEN Out("ok", <<>>, [value |-> FloatOf(e.value), unit |-> e.unit])
                   ELSE Out("ValueError", <<>>, ""))

\* the frequency getter answered with a BSWV line whose FRQ value is the
\* value string; the pint unit it chooses is kept beside the tuple
SiglentFrequencyOf ==
    /\ family = "SiglentSDG2042X"
    /\ \E a \in ValueUnitArgs, fault \in Faults(1) :
          LET answer == <<"C", "1">> \o T_BSWV \o <<" ">> \o T_WVTP \o <<",">> \o T_SINE
                        \o <<",">> \o T_FRQ \o <<",">> \o ValueUnitText(a)
                        \o <<",">> \o T_AMP \o <<",">> \o T_2V \o <<"\n">>
              out == SiglentSDG2042X_frequency_get(fault, answer)
          IN Plain("frequency.get", a,
                   IF out.res = "ok"
                   THEN Answered("ok", out.io,
                                 [value |-> FloatOf(out.ret[1]), unit |-> out.ret[2],
                                  pint_unit |-> SiglentSDG2042X_frequency_pint_unit(out.ret[2])],
                                 out.reply)
                   ELSE out)

NextValueUnit ==
    \/ FirstConnect
    \/ SiglentExtractValueAndUnit \/ SiglentFrequencyOf

SpecValueUnit == InitValueUnit /\ [][NextValueUnit]_vars

--------------------------------------------------------------------------
(* The output levels a PhilipsPM5139 is left at by a sequence of calls *)

LevelAmplitudes == {0, 5000, 20000, 20001}

LevelOffsets == {-10000, 0, 7500, 10000, 10001}

InitLevels ==
    /\ family = "PhilipsPM5139"
    /\ addr = {}
    /\ resource_name = "GPIB"
    /\ InitFacade

\* a call that may write levels; hist.levels follows the writes
Levelled(op, arg, out) ==
    /\ Called(op, arg, out)
    /\ hist' = [hist EXCEPT !.levels = LevelsAfter(hist.levels, out.io)]
    /\ UNCHANGED <<family, unit_mode, addr, resource_name, instrument, is_serial,
                   current_function, active_channel, limits, handles>>

PhilipsLevelAmplitude ==
    /\ family = "PhilipsPM5139"
    /\ \E value \in LevelAmplitudes :
           Levelled("amplitude.set", value, PhilipsPM5139_amplitude_set(value, 0))

PhilipsLevelOffset ==
    /\ family = "PhilipsPM5139"
    /\ \E value \in LevelOffsets :
           Levelled("offset.set", value, PhilipsPM5139_offset_set(value, 0))

PhilipsLevelConfigure ==
    /\ family = "PhilipsPM5139"
    /\ \E w \in {<<"s","i","n","e">>, <<"D","C">>}, a \in LevelAmplitudes, o \in LevelOffsets :
           Levelled("configure_waveform", CfgArg(w, Hz("1000"), a, o, 0),
                    PhilipsPM5139_configure_waveform(w, Hz("1000"), a, o, 0, 0))

NextLevels ==
    \/ FirstConnect
    \/ PhilipsLevelAmplitude \/ PhilipsLevelOffset \/ PhilipsLevelConfigure

SpecLevels == InitLevels /\ [][NextLevels]_vars

--------------------------------------------------------------------------
(* Properties *)

LifecycleOps == {"__init__", "connect", "disconnect"}

LimitOps == {"limits.set", "limits.reset_to_defaults"}

\* the last call was a typed operation (anything but connect/disconnect)
IsTypedOp == last.op \notin LifecycleOps \cup LimitOps

NoWriteNoQuery == Writes(io) = 0 /\ Queries(io) = 0

PulseTimingOps == {"get_pulse_width", "set_pulse_width", "get_rise_time",
                   "set_rise_time", "get_fall_time", "set_fall_time"}

SecondaryDisplayOps == {"secondary_function.get", "secondary_function.set",
                        "secondary", "both", "secondary_value"}

\* the last call was one whose body does not begin with the connection check
SkipsConnectionCheck ==
    \/ /\ family = "Fluke88"
       /\ last.op \in SecondaryDisplayOps \cup
                      {"primary_function.get", "auto_range.get", "range.get", "rate.get"}
    \/ /\ family = "PhilipsPM5139"
       /\ last.op \in PulseTimingOps \cup {"phase.get", "phase.set", "list_waveforms"}
    \/ /\ family \in {"RigolDP800", "SiglentSDG2042X", "PhilipsPM5139"}
       /\ last.op \in {"channel.get", "channel.set"}
    \/ /\ family \in {"SiglentSDG2042X", "PhilipsPM5139"}
       /\ last.op \in {"unit_mode.get", "unit_mode.set"}
    \/ /\ family = "RigolDP800"
       /\ last.op \in {"output_on", "output_off"}
       /\ last.arg.t # "none"
       /\ RigolChannelOf(last.arg) = 0

\* C1 as the specification states it: with no owned handle every typed
\* operation fails with ConnectionError and makes no write or query
C1_Original ==
    (IsTypedOp /\ pre.instrument = 0) =>
        (last.res = "ConnectionError" /\ NoWriteNoQuery)

\* C1, amended: with no owned handle no typed operation makes a write or a
\* query, and every operation that begins with the connection check fails
\* with ConnectionError; the operations that do not begin with it (Fluke88
\* getters and secondary-display operations, PhilipsPM5139 phase, pulse
\* timing and list_waveforms, the channel and unit_mode accessors,
\* RigolDP800 output_on/output_off given an invalid channel) return or fail
\* with ValidationError instead
C1_NoHandleNoTransport ==
    (IsTypedOp /\ pre.instrument = 0) =>
        /\ NoWriteNoQuery
        /\ ~SkipsConnectionCheck => last.res = "ConnectionError"
        /\ SkipsConnectionCheck => last.res \in {"ok", "ValidationError"}

C1_Witness ==
    /\ IsTypedOp
    /\ pre.instrument = 0
    /\ ~SkipsConnectionCheck
    /\ last.res = "ConnectionError"
    /\ io = <<>>

\* C2 as the specification states it: between a successful disconnect() that
\* followed a successful connect() and the next successful connect(), every
\* typed operation (here: every one that checks the connection) fails with
\* ConnectionError and nothing is written to or queried from the closed handle
C2_Original ==
    (IsTypedOp /\ ~SkipsConnectionCheck /\ pre.session = "disconnected") =>
        (last.res = "ConnectionError" /\ NoWriteNoQuery)

\* C3: a disconnect() that directly follows a successful disconnect()
\* returns without raising, and disconnect() raises ConnectionError only
\* when the owned handle was open and closing it failed
C3_DisconnectIdempotent ==
    last.op = "disconnect" =>
        /\ last.ret = "again" => last.res = "ok"
        /\ last.res = "ConnectionError" => (pre.instrument # 0 /\ pre.open)

C3_Witness ==
    /\ last.op = "disconnect"
    /\ last.ret = "again"
    /\ last.res = "ok"
    /\ pre.instrument # 0
    /\ ~pre.open

\* the bounds of `limits` that guard the setter last called, <<>> if none do
BoundsOf(op) ==
    CASE op = "frequency.set" -> <<limits.freq_min, limits.freq_max>>
      [] op = "amplitude.set" -> <<limits.amp_min, limits.amp_max>>
      [] op = "offset.set" -> <<limits.offset_min, limits.offset_max>>
      [] op = "phase.set" /\ family = "SiglentSDG2042X" ->
            <<limits.phase_min, limits.phase_max>>
      [] OTHER -> <<>>

\* C4: on a connected signal generator a limit-bound setter given v with
\* min <= v <= max of the current limits makes exactly one transport call, a
\* write carrying v, and succeeds when that write returns; given v outside
\* [min, max] it fails with ValidationError and makes no transport call
C4_LimitBoundSetters ==
    (/\ family \in {"SiglentSDG2042X", "PhilipsPM5139"}
     /\ BoundsOf(last.op) # <<>>
     /\ pre.instrument # 0 /\ pre.open) =>
        IF BoundsOf(last.op)[1] <= last.arg /\ last.arg <= BoundsOf(last.op)[2]
        THEN /\ Len(io) = 1
             /\ io[1].kind = "write"
             /\ io[1].n[Len(io[1].n)] = last.arg
             /\ io[1].ok => last.res = "ok"
             /\ ~io[1].ok => last.res = "CommandError"
        ELSE last.res = "ValidationError" /\ io = <<>>

C4_Witness ==
    /\ family = "SiglentSDG2042X"
    /\ last.op = "frequency.set"
    /\ pre.open
    /\ limits.freq_max = Hz("50e6")
    /\ last.arg = Hz("50e6")
    /\ last.res = "ok"
    /\ Writes(io) = 1

\* the valid waveform names of the facade's family
ValidWaveforms ==
    IF family = "PhilipsPM5139" THEN PhilipsPM5139_VALID_WAVEFORMS
    ELSE SiglentSDG2042X_VALID_WAVEFORMS

\* C5 as the specification states it: on a connected signal generator
\* configure_waveform with any sub-parameter (waveform type, frequency,
\* amplitude, offset, phase) outside its bounds fails with ValidationError
\* and makes no write; otherwise it writes
C5_Original ==
    (/\ family \in {"SiglentSDG2042X", "PhilipsPM5139"}
     /\ last.op = "configure_waveform"
     /\ pre.instrument # 0 /\ pre.open) =>
        IF /\ WaveOf(last.arg.waveform_type, ValidWaveforms) # ""
           /\ limits.freq_min <= last.arg.frequency
           /\ last.arg.frequency <= limits.freq_max
           /\ limits.amp_min <= last.arg.amplitude
           /\ last.arg.amplitude <= limits.amp_max
           /\ limits.offset_min <= last.arg.offset
           /\ last.arg.offset <= limits.offset_max
           /\ limits.phase_min <= last.arg.phase
           /\ last.arg.phase <= limits.phase_max
        THEN Writes(io) >= 1
        ELSE last.res = "ValidationError" /\ Writes(io) = 0

\* does the last call's argument name a Rate member for Fluke88?
Fluke88ArgAccepted ==
    last.op = "rate.set" => Fluke88RateEnum(last.arg) # ""

\* C6 as the specification states it: on a connected Fluke88 the range, rate
\* and auto_range setters fail with CommandError and write nothing before
\* any primary_function setter was called; once a primary_function setter
\* has succeeded they write one command whose prefix is the SCPI token of
\* the function most recently set, and succeed when the write returns
C6_Original ==
    (/\ family = "Fluke88"
     /\ last.op \in {"range.set", "rate.set", "auto_range.set"}
     /\ pre.instrument # 0 /\ pre.open) =>
        /\ ~hist.func_called => (last.res = "CommandError" /\ Writes(io) = 0)
        /\ (hist.func_ok # "" /\ Fluke88ArgAccepted) =>
              /\ Len(io) = 1
              /\ io[1].kind = "write"
              /\ io[1].s = hist.func_ok
              /\ io[1].ok => last.res = "ok"

\* C7 as the specification states it: every secondary-display operation of
\* Fluke88 fails with ValidationError and makes no write or query
C7_Original ==
    (family = "Fluke88" /\ last.op \in SecondaryDisplayOps) =>
        (last.res = "ValidationError" /\ NoWriteNoQuery)

\* C8 as the specification states it: the PhilipsPM5139 phase getter and
\* setter and its pulse-timing operations fail with ValidationError and
\* make no transport call
C8_Original ==
    (/\ family = "PhilipsPM5139"
     /\ last.op \in PulseTimingOps \cup {"phase.get", "phase.set"}) =>
        (last.res = "ValidationError" /\ io = <<>>)

\* C8, amended: on PhilipsPM5139 the pulse-timing operations always fail
\* with ValidationError, the phase getter returns the constant 0.0 degrees
\* (as a tuple or as a pint Quantity) and the phase setter accepts any value
\* and ignores it; none of them makes a transport call, whatever the
\* connection state
C8_PhaseAndPulseWithoutIO ==
    (family = "PhilipsPM5139") =>
        /\ last.op \in PulseTimingOps => (last.res = "ValidationError" /\ io = <<>>)
        /\ last.op = "phase.get" =>
              /\ last.res = "ok"
              /\ last.ret \in {"(0.0, 'DEG')", "0.0 degree"}
              /\ io = <<>>
        /\ last.op = "phase.set" => (last.res = "ok" /\ io = <<>>)

C8_Witness ==
    /\ family = "PhilipsPM5139"
    /\ last.op = "phase.set"
    /\ last.arg = 720
    /\ pre.instrument # 0 /\ pre.open
    /\ last.res = "ok"
    /\ io = <<>>

\* the waveform names PhilipsPM5139 does not take
UnsupportedWaveChars == {WaveChars("NOISE"), WaveChars("PRBS"), WaveChars("IQ")}

\* C9: on a facade that owns a handle, setting Fluke88's primary_function to
\* VACDC (no entry in _FUNCTION_MAP) fails with ValidationError, writes
\* nothing and leaves the configured-function selector as it was; setting
\* PhilipsPM5139's waveform_type, or calling its configure_waveform, with
\* NOISE, PRBS or IQ fails with ValidationError and writes nothing
C9_NoSilentFallback ==
    /\ (/\ family = "Fluke88"
        /\ last.op = "primary_function.set"
        /\ last.arg = EnumArg("VACDC")
        /\ pre.instrument # 0) =>
           /\ last.res = "ValidationError"
           /\ Writes(io) = 0
           /\ current_function = pre.current_function
    /\ (/\ family = "PhilipsPM5139"
        /\ last.op = "waveform_type.set"
        /\ Upper(last.arg) \in UnsupportedWaveChars
        /\ pre.instrument # 0) =>
           (last.res = "ValidationError" /\ Writes(io) = 0)
    /\ (/\ family = "PhilipsPM5139"
        /\ last.op = "configure_waveform"
        /\ Upper(last.arg.waveform_type) \in UnsupportedWaveChars
        /\ pre.instrument # 0) =>
           (last.res = "ValidationError" /\ Writes(io) = 0)

C9_Witness ==
    /\ family = "Fluke88"
    /\ last.op = "primary_function.set"
    /\ last.arg = EnumArg("VACDC")
    /\ pre.open
    /\ pre.current_function = "VOLT:DC"
    /\ last.res = "ValidationError"
    /\ current_function = "VOLT:DC"

\* C10 as the specification states it: a connect() that raises
\* ConnectionError on a facade whose handle was unset leaves it unset
C10_Original ==
    (last.op = "connect" /\ last.res = "ConnectionError" /\ pre.instrument = 0) =>
        instrument = 0

T_SIGLENT == <<"S","I","G","L","E","N","T">>

\* the identity lines that carry the family's vendor and model, compared
\* without regard to case
ExpectedIdentities ==
    {k \in IdnKeys :
        LET u == Upper(Strip(IdnText(k))) IN
        CASE family = "Fluke45" -> Contains(u, T_FLUKE) /\ Contains(u, T_45)
          [] family = "Fluke88" ->
                Contains(u, T_FLUKE) /\ (Contains(u, T_8845) \/ Contains(u, T_8846))
          [] family = "RigolDP800" -> Contains(u, T_RIGOL) /\ Contains(u, T_DP8)
          [] family = "SiglentSDG2042X" -> Contains(u, T_SIGLENT) /\ Contains(u, T_SDG)
          [] OTHER -> /\ Contains(u, T_PM5139)
                      /\ (Contains(u, T_FLUKE) \/ Contains(u, T_PHILIPS))}

\* C11 as the specification states it: a connect() that succeeds has stored
\* the handle of a device whose *IDN? answer carries the family's vendor and
\* model; an empty or non-matching answer never ends in a connected facade
C11_Original ==
    (last.op = "connect" /\ last.res = "ok") => last.ret.idn \in ExpectedIdentities

\* C12 as the specification states it: on a facade constructed with both a
\* resource_name and an addressing field, the first address connect() opens
\* is the resource_name
C12_Original ==
    (/\ last.op = "connect"
     /\ pre.resource_name # ""
     /\ addr \cap Fields(family) # {}
     /\ last.ret.opened # <<>>) =>
        last.ret.opened[1] = pre.resource_name

\* the declared order of the addressing fields of each connect()
FieldOrder ==
    CASE family = "Fluke45" -> <<"gpib_address", "serial_port">>
      [] family = "Fluke88" -> <<"ip_address", "gpib_address">>
      [] family = "RigolDP800" -> <<"usb_serial", "ip_address", "gpib_address">>
      [] OTHER -> <<>>

\* the first field, in declared order, that the facade was constructed with
FirstFieldGiven ==
    FieldOrder[CHOOSE i \in 1..Len(FieldOrder) :
                  /\ FieldOrder[i] \in addr
                  /\ \A j \in 1..(i - 1) : FieldOrder[j] \notin addr]

\* C12, amended: connect() resolves the address in the order addressing
\* fields (in their declared order), then resource_name, then
\* auto-discovery, and an addressed connect() opens one address only: with
\* a field given, the address built from the first given field, whatever
\* the resource_name; with a resource_name and no field, the resource_name;
\* with neither, only enumerated addresses the family probes
C12_FieldsBeforeResourceName ==
    last.op = "connect" =>
        IF addr \cap Fields(family) # {}
        THEN last.ret.opened = <<FieldResource(FirstFieldGiven)>>
        ELSE IF pre.resource_name # ""
        THEN last.ret.opened = <<pre.resource_name>>
        ELSE \A i \in 1..Len(last.ret.opened) :
                AutoProbes(family, last.ret.opened[i])

C12_Witness ==
    /\ last.op = "connect"
    /\ last.res = "ok"
    /\ addr = {"gpib_address"}
    /\ pre.resource_name = "ASRL"
    /\ last.ret.opened = <<"GPIB">>
    /\ resource_name = "GPIB"

\* a transport call of the last operation raised
TransportFault == \E i \in 1..Len(io) : ~io[i].ok

\* C13 as the specification states it: when a transport call of a typed
\* operation raises, the operation fails with CommandError and the call that
\* raised is the last one it attempted (nothing is swallowed, defaulted or
\* retried)
C13_Original ==
    (IsTypedOp /\ TransportFault) =>
        /\ last.res = "CommandError"
        /\ \A i \in 1..(Len(io) - 1) : io[i].ok


\* the getters that decode a numeric value from the answer to BSWV?, and
\* the key each looks for
SiglentNumericGetters == {"frequency.get", "amplitude.get", "offset.get", "phase.get"}

BswvKeyOf(op) ==
    CASE op = "frequency.get" -> T_FRQ
      [] op = "amplitude.get" -> T_AMP
      [] op = "offset.get" -> T_OFST
      [] OTHER -> T_PHSE

\* the state getters that decode a boolean from the answer
StateGetters == {"output.get", "output_state.get", "auto_range.get"}

\* the state tokens an instrument answers a state query with
StateTokens == {<<"O","N">>, <<"O","F","F">>, <<"1">>, <<"0">>}

\* the last call was a Siglent numeric getter answered with a value that has
\* no leading numeric token
ValueNotNumeric ==
    /\ family = "SiglentSDG2042X"
    /\ last.op \in SiglentNumericGetters
    /\ last.reply # <<>>
    /\ LET params == SiglentSDG2042X_parse_parameter_response(Strip(last.reply[1]))
       IN /\ BswvKeyOf(last.op) \in DOMAIN params
          /\ NumberLen(params[BswvKeyOf(last.op)]) = 0

\* the last call was a state getter answered with no recognised state token
StateNotRecognised ==
    /\ last.op \in StateGetters
    /\ last.reply # <<>>
    /\ Upper(Strip(last.reply[1])) \notin StateTokens

\* C14: a getter whose response cannot be decoded fails with CommandError:
\* a Siglent numeric getter whose value has no leading numeric token, and
\* a boolean state getter whose response is not a recognised state token
C14_Original ==
    (ValueNotNumeric \/ StateNotRecognised) => last.res = "CommandError"


\* the operations that decode a comma-separated list of fixed arity
FixedArity(op) ==
    CASE op = "both" -> 2
      [] op = "get_settings" -> 2
      [] op = "measure_all" -> 3
      [] OTHER -> 0

\* the number of comma-separated fields of the last reply
ReplyFields == Len(Split(last.reply[1], ","))

\* C15: an operation decoding a comma-separated list of fixed arity
\* (Fluke45.both: 2, RigolDP800.measure_all: 3, get_settings: 2) fails with
\* CommandError for a reply of any other number of fields
C15_Original ==
    (/\ FixedArity(last.op) > 0
     /\ last.reply # <<>>
     /\ ReplyFields # FixedArity(last.op)) => last.res = "CommandError"


\* C16: every typed operation performs at most one write and at most one
\* query on the transport
C16_Original ==
    IsTypedOp => Writes(io) <= 1 /\ Queries(io) <= 1


\* the limits a facade of family f is constructed with
SeededLimits(f) ==
    IF f = "PhilipsPM5139" THEN PhilipsPM5139_init_limits ELSE ParameterLimits_init

\* C17: limits.reset_to_defaults() leaves every bound at the value the
\* facade's own family was constructed with
C17_Original ==
    last.op = "limits.reset_to_defaults" => limits = SeededLimits(family)


\* the prompt prefixes of a Fluke45 on a serial link
P_SYNTAX == <<"?", ">">>
P_EXEC == <<"!", ">">>
P_OK == <<"=", ">">>

\* _read_response() was called and, on a serial link, a line was read
LineRead == last.op = "_read_response" /\ is_serial /\ last.reply # <<>>

\* on a link that is not serial _read_response() returns None and reads
\* nothing
NoOpWhenNotSerial ==
    (last.op = "_read_response" /\ ~is_serial) =>
        last.res = "ok" /\ last.ret = "None" /\ io = <<>>

\* C18 as stated: a line starting with '?>' or '!>' fails with CommandError
\* embedding the raw line, a line starting with '=>' is returned without
\* that prefix, any other line is returned unchanged; not serial: a no-op
C18_Original ==
    /\ NoOpWhenNotSerial
    /\ LineRead =>
          LET line == last.reply[1] IN
          IF HasPrefix(line, P_SYNTAX) \/ HasPrefix(line, P_EXEC)
          THEN last.res = "CommandError" /\ Contains(last.ret, line)
          ELSE IF HasPrefix(line, P_OK)
          THEN last.res = "ok" /\ last.ret = From(line, Len(P_OK) + 1)
          ELSE last.res = "ok" /\ last.ret = line

\* C18, amended: the line is first trimmed of surrounding white space; a
\* trimmed line starting with '?>' or '!>' fails with CommandError
\* embedding the trimmed line, one starting with '=>' is returned without
\* the prefix and trimmed again, any other is returned trimmed; not serial:
\* a no-op that reads nothing
C18_PromptDecoding ==
    /\ NoOpWhenNotSerial
    /\ LineRead =>
          LET line == Strip(last.reply[1]) IN
          IF HasPrefix(line, P_SYNTAX) \/ HasPrefix(line, P_EXEC)
          THEN last.res = "CommandError" /\ Contains(last.ret, line)
          ELSE IF HasPrefix(line, P_OK)
          THEN last.res = "ok" /\ last.ret = Strip(From(line, Len(P_OK) + 1))
          ELSE last.res = "ok" /\ last.ret = line

\* a serial Fluke45 read '=> 1' with its line end and returned '1'
C18_Witness ==
    /\ LineRead
    /\ last.reply[1] = RL_VALUE
    /\ last.res = "ok"
    /\ last.ret = <<"1">>

\* the mapping the elements e of a parameter list pair up to: element
\* 2j-1 is a key, element 2j its value, the last pair of a key counts
PairsOf(e) ==
    LET n == Len(e) \div 2
        keys == {e[2 * j - 1] : j \in 1..n}
    IN [k \in keys |-> e[2 * (CHOOSE j \in 1..n :
                                 /\ e[2 * j - 1] = k
                                 /\ \A i \in (j + 1)..n : e[2 * i - 1] # k)]]

\* C19: _parse_parameter_response never fails; with or without a
\* 'C<n>:BSWV ' header it returns the comma-separated elements paired
\* positionally, a trailing key without a value dropped, the empty mapping
\* for the empty text, and {WVTP: SINE, FRQ: 1KHZ, AMP: 2V} for
\* 'C1:BSWV WVTP,SINE,FRQ,1KHZ,AMP,2V'
C19_KeyValueDecoding ==
    last.op = "_parse_parameter_response" =>
        /\ last.res = "ok"
        /\ io = <<>>
        /\ last.ret = PairsOf(last.arg.elems)
        /\ Len(last.arg.elems) % 2 = 1 =>
              Cardinality(DOMAIN last.ret) <= Len(last.arg.elems) \div 2
        /\ ParseText(last.arg) = <<>> => DOMAIN last.ret = {}
        /\ last.arg = SCENARIO_C =>
              last.ret = (T_WVTP :> T_SINE) @@ (T_FRQ :> T_1KHZ) @@ (T_AMP :> T_2V)

\* a text with a header and three elements was decoded to one pair
C19_Witness ==
    /\ last.op = "_parse_parameter_response"
    /\ last.arg.header = H_C1
    /\ last.arg.elems = <<T_FRQ, T_2V, T_AMP>>
    /\ last.ret = (T_FRQ :> T_2V)


\* the channel apply() was called for: the one given, the active one when
\* none was given, 0 when the one given is not a channel
AppliedChannel ==
    IF last.arg.channel.t = "none" THEN pre.active_channel
    ELSE RigolChannelOf(last.arg.channel)

\* C20: apply(voltage, current, channel) on a connected RigolDP800 makes
\* exactly one write, ':APPLy <ch>,<v>,<a>' for the given or else the
\* active channel, and no query, and leaves the active channel as it was;
\* an invalid channel fails with ValidationError and makes no write
C20_ApplyOneWrite ==
    (last.op = "apply" /\ pre.open) =>
        /\ Queries(io) = 0
        /\ active_channel = pre.active_channel
        /\ IF AppliedChannel = 0
           THEN last.res = "ValidationError" /\ Writes(io) = 0
           ELSE /\ Writes(io) = 1
                /\ Len(io) = 1
                /\ io[1].verb = ":APPLy"
                /\ io[1].n = <<AppliedChannel, last.arg.voltage, last.arg.current>>
                /\ last.res = IF io[1].ok THEN "ok" ELSE "CommandError"

\* apply() for CH2 while CH1 was active: one write sent, CH1 still active
C20_Witness ==
    /\ last.op = "apply"
    /\ pre.open
    /\ last.arg.channel = ChannelArg(2)
    /\ pre.active_channel = 1
    /\ active_channel = 1
    /\ last.res = "ok"
    /\ Len(io) = 1
    /\ io[1].n[1] = 2


\* C21: entering the scope calls connect() (the body runs only with the
\* handle it opened); leaving it calls disconnect() exactly once, after a
\* body that completed and after one that raised alike, which closes the
\* owned handle unless close() itself raised; the exception of the body
\* is not suppressed: it leaves the with statement, unless disconnect()
\* raised, and then that exception leaves it
C21_ScopedConnection ==
    /\ hist.scope = "in" =>
          /\ instrument # 0
          /\ (last.op = "__enter__" => IsOpen(instrument) /\ last.res = "ok")
    /\ (last.op = "__enter__" /\ last.res # "ok") => hist.scope = "failed"
    /\ last.op = "__exit__" =>
          /\ last.ret.disconnects = 1
          /\ last.res = "ok" => ~IsOpen(pre.instrument)
          /\ last.arg.exc # "none" =>
                /\ last.ret.propagated # "none"
                /\ last.res = "ok" => last.ret.propagated = last.arg.exc

\* the body raised CommandError; __exit__ disconnected once and the
\* CommandError left the with statement
C21_Witness ==
    /\ last.op = "__exit__"
    /\ last.arg.exc = "CommandError"
    /\ pre.open
    /\ ~IsOpen(pre.instrument)
    /\ last.ret.disconnects = 1
    /\ last.ret.propagated = "CommandError"


\* C22: the command configure_waveform writes for an accepted (waveform
\* type, frequency, amplitude, offset), read back as a BSWV response and
\* decoded with the key-value decoder and the numeric extractor, gives the
\* same waveform type (in upper case), frequency, amplitude and offset
C22_RoundTrip ==
    last.op = "read_back" =>
        /\ last.res = "ok"
        /\ last.ret.waveform_type = Upper(last.arg.waveform_type)
        /\ last.ret.frequency = last.arg.frequency
        /\ last.ret.amplitude = last.arg.amplitude
        /\ last.ret.offset = last.arg.offset

\* 1e-6 Hz, written as '1e-06', and -5 mV, written as '-0.005', came back
C22_Witness ==
    /\ last.op = "read_back"
    /\ last.arg.frequency = Hz("1e-6")
    /\ last.arg.offset = -5
    /\ Contains(last.reply[1], <<"F","R","Q",",","1","e","-","0","6",",">>)
    /\ Contains(last.reply[1], <<"O","F","S","T",",","-","0",".","0","0","5",",">>)
    /\ last.ret.frequency = Hz("1e-6")
    /\ last.ret.offset = -5


\* C23: _extract_value_and_unit returns (number, suffix) for a signed
\* decimal number, optionally with an exponent, followed by a unit suffix:
\* the number is the float the text stands for and the suffix is the one
\* given (empty when there was none); a string that does not start with a
\* number fails with ValueError; and the frequency getter returns that
\* number unscaled with the suffix, the unit being kilohertz when the
\* suffix holds KHZ, megahertz when it holds MHZ, else hertz
C23_ValueUnitParser ==
    /\ last.op = "_extract_value_and_unit" =>
          IF last.arg.numeric
          THEN /\ last.res = "ok"
               /\ last.ret.value = last.arg.value
               /\ last.ret.unit = last.arg.unit
          ELSE last.res = "ValueError"
    /\ (last.op = "frequency.get" /\ last.reply # <<>> /\ last.arg.numeric) =>
          /\ last.res = "ok"
          /\ last.ret.value = last.arg.value
          /\ last.ret.unit = last.arg.unit
          /\ last.ret.pint_unit =
                (IF Contains(Upper(last.arg.unit), <<"K","H","Z">>) THEN "kilohertz"
                 ELSE IF Contains(Upper(last.arg.unit), <<"M","H","Z">>) THEN "megahertz"
                 ELSE "hertz")

\* '2.5E-3 kHz' was read by the frequency getter as 0.0025 with 'kHz',
\* in kilohertz
C23_Witness ==
    /\ last.op = "frequency.get"
    /\ last.res = "ok"
    /\ last.arg.num = <<"2",".","5","E","-","3">>
    /\ last.arg.gap = <<" ">>
    /\ last.ret = [value |-> Dec(25, -4), unit |-> <<"k","H","z">>,
                   pint_unit |-> "kilohertz"]


\* a Fluke45 getter or measurement query read a line on a serial link
QueryLineRead == last.op \in Fluke45Getters /\ is_serial /\ last.reply # <<>>

\* C24: on a serial link the Fluke45 getters and measurement queries decode
\* the line they read as the setters do: a line starting with '?>' or '!>'
\* fails with CommandError embedding the line, and a line starting with
\* '=>' gives the typed result of what follows the prefix
C24_Original ==
    QueryLineRead =>
        LET line == Strip(last.reply[1]) IN
        IF HasPrefix(line, P_SYNTAX) \/ HasPrefix(line, P_EXEC)
        THEN last.res = "CommandError" /\ Contains(last.ret, line)
        ELSE HasPrefix(line, P_OK) =>
                LET typed == Fluke45_getter(last.op, 0, From(line, Len(P_OK) + 1))
                IN last.res = typed.res /\ last.ret = typed.ret


\* C25: after any sequence of connect() and disconnect() calls every handle
\* that was opened is the handle the facade owns, or is closed
C25_Original ==
    \A h \in 1..Len(handles) : handles[h] => h = instrument


\* C26: RigolDP800.output_on(channel) and output_off(channel) leave the
\* active channel at the value it had before the call, in every outcome
C26_Original ==
    (family = "RigolDP800" /\ last.op \in {"output_on", "output_off"}) =>
        active_channel = pre.active_channel


\* C27: the function selector of a Fluke88 changes only in a
\* primary_function assignment whose 'CONF:<func>' write succeeded; an
\* assignment that fails (ConnectionError, ValidationError, CommandError)
\* leaves the selector at its previous value
C27_Original ==
    (family = "Fluke88" /\ current_function # pre.current_function) =>
        (last.op = "primary_function.set" /\ last.res = "ok")


\* C28: the configured function of a Fluke88 does not outlive the
\* connection: after primary_function was assigned with success, the
\* connection closed by disconnect() and a new one made by a successful
\* connect(), the range, rate and auto_range assignments fail with
\* CommandError as long as primary_function has not been assigned on the
\* new connection
C28_Original ==
    (/\ family = "Fluke88"
     /\ last.op \in {"range.set", "rate.set", "auto_range.set"}
     /\ pre.instrument # 0 /\ pre.open
     /\ \A h \in 1..Len(handles) : handles[h] => h = instrument
     /\ hist.func_ok # ""
     /\ ~hist.func_session) =>
        last.res = "CommandError"

\* C29: with the limits a PhilipsPM5139 is constructed with, no sequence
\* of amplitude, offset and configure_waveform calls that succeed leaves
\* the instrument at levels with |offset| + amplitude / 2 above 10 V
\* (levels in millivolts)
C29_Original ==
    family = "PhilipsPM5139" =>
        2 * Abs(hist.levels.offset) + hist.levels.amplitude <= 20000

\* the model token of an identity line: its second comma-separated field
ModelToken(idn) ==
    LET fields == Split(Strip(idn), ",")
    IN IF Len(fields) >= 2 THEN Strip(fields[2]) ELSE <<>>

\* C30: a Fluke45 connect() made by gpib_address, by serial_port or by
\* auto-discovery adopts only a device whose *IDN? answer has the model
\* token '45'
C30_Original ==
    (/\ family = "Fluke45"
     /\ last.op = "connect" /\ last.res = "ok"
     /\ (addr \cap {"gpib_address", "serial_port"} # {} \/ pre.resource_name = "")) =>
        ModelToken(IdnText(last.ret.idn)) = T_45

====
